---- MODULE Spec2Model ----
(***************************************************************************)
(* A model of hmm_tblout: the tblout Reader (header scan, metadata scan,   *)
(* record iterators), Header::calculate_dashes, the record Display         *)
(* implementations and the Writer.                                         *)
(*                                                                         *)
(* Text is modelled character by character: a Rust String is a sequence of *)
(* one-character strings, so "#-- -" is <<"#","-","-"," ","-">>.           *)
(***************************************************************************)
EXTENDS Integers, Sequences, FiniteSets, TLC

VARIABLES
    pc,       \* which operation the caller may run next, or where it panicked
    file,     \* the input: the lines read_line delivers, terminators included
    header,   \* Header {protein_only, columns, dashes}
    meta,     \* Meta (the eight metadata fields)
    rpos,     \* Reader.rdr: lines consumed from the data stream
    line_no,  \* Reader.line
    iter,     \* the RecordsIter / RecordsIntoIter in use
    items,    \* what Iterator::next has returned so far, in order
    lengths,  \* the Vec<usize> last returned by calculate_dashes
    rec,      \* the record handed to Writer::write_record
    out,      \* the bytes the Writer has been given
    wlog,     \* the Writer calls made so far, in order
    decoded   \* the result of decoding the Writer's last line

vars == <<pc, file, header, meta, rpos, line_no, iter, items, lengths, rec,
          out, wlog, decoded>>

---------------------------------------------------------------------------
(* Text helpers *)

\* A string literal as a sequence of characters.
RECURSIVE Chars(_)
Chars(s) ==
    IF Len(s) = 0 THEN <<>>
    ELSE <<SubSeq(s, 1, 1)>> \o Chars(SubSeq(s, 2, Len(s)))

\* All sequences over S of length exactly n / at most n.
RECURSIVE SeqsOfLen(_, _)
SeqsOfLen(S, n) ==
    IF n = 0 THEN {<<>>}
    ELSE {Append(s, c) : s \in SeqsOfLen(S, n - 1), c \in S}

SeqsUpTo(S, n) ==
    UNION {SeqsOfLen(S, k) : k \in 0..n}

\* n copies of the character c.
Repeat(c, n) ==
    [i \in 1..n |-> c]

\* char::is_whitespace, on the characters the model uses.
IsWhitespace(c) ==
    c \in {" ", "\t", "\n", "\r"}

Option_None == [tag |-> "None"]

NoRecord == [variant |-> "None"]

---------------------------------------------------------------------------
(* Header::calculate_dashes (record.rs 550-591) *)

\* The loop's locals before the first character.
DashInit ==
    [lengths |-> <<>>, current_length |-> 0, space_count |-> 0,
     in_dash_run |-> FALSE]

\* A slip: the space that ends a run is counted into the next column.
DashStepKeepsSeparator(st, c) ==
    CASE c \in {"-", "#"} ->
            [st EXCEPT !.current_length = st.current_length + st.space_count + 1,
                       !.space_count = 0,
                       !.in_dash_run = TRUE]
      [] c = " " ->
            IF st.in_dash_run
            THEN IF st.space_count = 0
                 THEN [st EXCEPT !.lengths = Append(st.lengths, st.current_length),
                                 !.current_length = 0,
                                 !.space_count = 1]
                 ELSE [st EXCEPT !.space_count = st.space_count + 1]
            ELSE st
      [] OTHER ->
            [st EXCEPT !.lengths = IF st.current_length > 0
                                   THEN Append(st.lengths, st.current_length)
                                   ELSE st.lengths,
                       !.current_length = 0,
                       !.space_count = 0,
                       !.in_dash_run = FALSE]

\* A slip: the spaces before a run are not counted into it.
DashStepIgnoresPadding(st, c) ==
    CASE c \in {"-", "#"} ->
            [st EXCEPT !.current_length = st.current_length + 1,
                       !.space_count = 0,
                       !.in_dash_run = TRUE]
      [] c = " " ->
            IF st.in_dash_run
            THEN IF st.space_count = 0
                 THEN [st EXCEPT !.lengths = Append(st.lengths, st.current_length),
                                 !.current_length = 0,
                                 !.space_count = 1]
                 ELSE [st EXCEPT !.space_count = st.space_count + 1]
            ELSE st
      [] OTHER ->
            [st EXCEPT !.lengths = IF st.current_length > 0
                                   THEN Append(st.lengths, st.current_length)
                                   ELSE st.lengths,
                       !.current_length = 0,
                       !.space_count = 0,
                       !.in_dash_run = FALSE]

\* A slip: every space after a run closes a column.
DashStepPushesEverySpace(st, c) ==
    CASE c \in {"-", "#"} ->
            [st EXCEPT !.current_length =
                           (IF st.space_count > 1
                            THEN st.current_length + (st.space_count - 1)
                            ELSE st.current_length) + 1,
                       !.space_count = 0,
                       !.in_dash_run = TRUE]
      [] c = " " ->
            IF st.in_dash_run
            THEN [st EXCEPT !.lengths = Append(st.lengths, st.current_length),
                            !.current_length = 0,
                            !.space_count = st.space_count + 1]
            ELSE st
      [] OTHER ->
            [st EXCEPT !.lengths = IF st.current_length > 0
                                   THEN Append(st.lengths, st.current_length)
                                   ELSE st.lengths,
                       !.current_length = 0,
                       !.space_count = 0,
                       !.in_dash_run = FALSE]

\* One iteration of `for c in self.dashes.chars()`.
DashStep(st, c) ==
    CASE c \in {"-", "#"} ->
            [st EXCEPT !.current_length =
                           (IF st.space_count > 1
                            THEN st.current_length + (st.space_count - 1)
                            ELSE st.current_length) + 1,
                       !.space_count = 0,
                       !.in_dash_run = TRUE]
      [] c = " " ->
            IF st.in_dash_run
            THEN IF st.space_count = 0
                 THEN [st EXCEPT !.lengths = Append(st.lengths, st.current_length),
                                 !.current_length = 0,
                                 !.space_count = 1]
                 ELSE [st EXCEPT !.space_count = st.space_count + 1]
            ELSE st
      [] OTHER ->
            [st EXCEPT !.lengths = IF st.current_length > 0
                                   THEN Append(st.lengths, st.current_length)
                                   ELSE st.lengths,
                       !.current_length = 0,
                       !.space_count = 0,
                       !.in_dash_run = FALSE]

\* The loop over characters lo..hi from the locals st, the characters taken
\* in order: the first half, then the second from where the first ended.
RECURSIVE DashFold(_, _, _, _)
DashFold(s, lo, hi, st) ==
    IF lo > hi THEN st
    ELSE IF lo = hi THEN DashStep(st, s[lo])
    ELSE CHOOSE r \in {DashFold(s, ((lo + hi) \div 2) + 1, hi, half) :
                           half \in {DashFold(s, lo, (lo + hi) \div 2, st)}} : TRUE

\* A slip: the column still open at the end of the line is not pushed.
DashFinishDropsOpenColumn(st) ==
    st.lengths

\* After the loop: a column still open is pushed.
DashFinish(st) ==
    IF st.current_length > 0
    THEN Append(st.lengths, st.current_length)
    ELSE st.lengths

calculate_dashes(dashes) ==
    DashFinish(DashFold(dashes, 1, Len(dashes), DashInit))

\* Header::new / Header::default
Header_new(protein_only, columns, dashes) ==
    [protein_only |-> protein_only, columns |-> columns, dashes |-> dashes]

Header_default ==
    Header_new(Option_None, <<>>, <<>>)

---------------------------------------------------------------------------
(* Integers, floats, strands and characters as text *)

I32_MAX == 2147483647

I32_MIN == -I32_MAX - 1

DigitChars == <<"0", "1", "2", "3", "4", "5", "6", "7", "8", "9">>

IsDigit(c) ==
    \E d \in 1..10 : DigitChars[d] = c

DigitVal(c) ==
    (CHOOSE d \in 1..10 : DigitChars[d] = c) - 1

AllDigits(s) ==
    \A i \in 1..Len(s) : IsDigit(s[i])

\* The decimal digits of n >= 0.
RECURSIVE NatToChars(_)
NatToChars(n) ==
    IF n < 10 THEN <<DigitChars[n + 1]>>
    ELSE Append(NatToChars(n \div 10), DigitChars[(n % 10) + 1])

\* impl Display for i32
I32_Display(n) ==
    IF n >= 0 THEN NatToChars(n)
    ELSE IF n = I32_MIN THEN Chars("-2147483648")
    ELSE <<"-">> \o NatToChars(-n)

\* The checked accumulation of i32::from_str: digits are added (or, for a
\* negative number, subtracted) one at a time and any overflow is an error.
\* Whether acc * 10 - d (neg) or acc * 10 + d still fits an i32.
DigitFits(acc, d, neg) ==
    IF neg
    THEN acc >= (I32_MIN + d) \div 10 + (IF (I32_MIN + d) % 10 = 0 THEN 0 ELSE 1)
    ELSE acc <= (I32_MAX - d) \div 10

RECURSIVE CheckedDigits(_, _, _, _)
CheckedDigits(s, i, acc, neg) ==
    IF i > Len(s) THEN [ok |-> TRUE, val |-> acc]
    ELSE IF ~DigitFits(acc, DigitVal(s[i]), neg) THEN [ok |-> FALSE, val |-> 0]
    ELSE CheckedDigits(s, i + 1,
                       IF neg THEN acc * 10 - DigitVal(s[i])
                       ELSE acc * 10 + DigitVal(s[i]),
                       neg)

\* The digits after the sign has been taken off.
ParseI32Digits(digits, neg) ==
    IF Len(digits) = 0 \/ ~AllDigits(digits)
    THEN [ok |-> FALSE, val |-> 0]
    ELSE CheckedDigits(digits, 1, 0, neg)

\* str::parse::<i32>: an optional sign, then at least one digit, in range.
ParseI32(tok) ==
    IF Len(tok) > 1 /\ tok[1] \in {"+", "-"}
    THEN ParseI32Digits(Tail(tok), tok[1] = "-")
    ELSE ParseI32Digits(tok, FALSE)

\* An f32 is modelled by the shortest decimal that identifies it, which is
\* what Rust prints: cls "finite" with value (-1)^neg * m * 10^e, m not a
\* multiple of 10 (m = 0 has e = 0); or cls "inf" / "nan".
F32(neg, m, e) ==
    [cls |-> "finite", neg |-> neg, m |-> m, e |-> e]

F32_Inf(neg) ==
    [cls |-> "inf", neg |-> neg, m |-> 0, e |-> 0]

F32_NaN ==
    [cls |-> "nan", neg |-> FALSE, m |-> 0, e |-> 0]

RECURSIVE F32_Normalize(_, _, _)
F32_Normalize(neg, m, e) ==
    IF m = 0 THEN F32(neg, 0, 0)
    ELSE IF m % 10 = 0 THEN F32_Normalize(neg, m \div 10, e + 1)
    ELSE F32(neg, m, e)

F32_Sign(x) ==
    IF x.neg THEN <<"-">> ELSE <<>>

\* impl Display for f32, no precision: plain decimal notation.
\* The digits d of the mantissa placed around the decimal point for
\* exponent e.
PlainDecimal(d, e) ==
    IF e >= 0 THEN d \o Repeat("0", e)
    ELSE IF Len(d) > -e
    THEN SubSeq(d, 1, Len(d) + e) \o <<".">> \o SubSeq(d, Len(d) + e + 1, Len(d))
    ELSE <<"0", ".">> \o Repeat("0", -e - Len(d)) \o d

F32_Display(x) ==
    CASE x.cls = "nan" -> <<"N", "a", "N">>
      [] x.cls = "inf" -> F32_Sign(x) \o <<"i", "n", "f">>
      [] OTHER -> F32_Sign(x) \o PlainDecimal(NatToChars(x.m), x.e)

\* impl LowerExp for f32 ({:e}).
\* The digits d of the mantissa in scientific notation for exponent e.
Scientific(d, e) ==
    <<d[1]>>
    \o (IF Len(d) > 1 THEN <<".">> \o SubSeq(d, 2, Len(d)) ELSE <<>>)
    \o <<"e">> \o I32_Display(e + Len(d) - 1)

F32_LowerExp(x) ==
    CASE x.cls = "nan" -> <<"N", "a", "N">>
      [] x.cls = "inf" -> F32_Sign(x) \o <<"i", "n", "f">>
      [] OTHER -> F32_Sign(x) \o Scientific(NatToChars(x.m), x.e)

RECURSIVE Pow10(_)
Pow10(n) ==
    IF n = 0 THEN 1 ELSE 10 * Pow10(n - 1)

\* impl Display for f32 with precision 1 ({:.1}): one digit after the point,
\* the dropped digits rounded half to even.
\* m / p rounded to an integer, a tie going to the even neighbour.
RoundHalfEven(m, p) ==
    IF 2 * (m % p) > p \/ (2 * (m % p) = p /\ (m \div p) % 2 = 1)
    THEN (m \div p) + 1
    ELSE m \div p

\* The value in tenths, rounded.
Tenths(x) ==
    IF x.e >= -1 THEN x.m * Pow10(x.e + 1)
    ELSE RoundHalfEven(x.m, Pow10(-x.e - 1))

FixedTenths(t) ==
    NatToChars(t \div 10) \o <<".">> \o NatToChars(t % 10)

F32_Fixed1(x) ==
    CASE x.cls = "nan" -> <<"N", "a", "N">>
      [] x.cls = "inf" -> F32_Sign(x) \o <<"i", "n", "f">>
      [] OTHER -> F32_Sign(x) \o FixedTenths(Tenths(x))

\* Position of the first character of s that is in S, or 0.
FirstIn(s, S) ==
    IF \E i \in 1..Len(s) : s[i] \in S
    THEN CHOOSE i \in 1..Len(s) : s[i] \in S /\ \A j \in 1..(i - 1) : s[j] \notin S
    ELSE 0

LowerAscii(s) ==
    [i \in 1..Len(s) |->
        CASE s[i] = "I" -> "i" [] s[i] = "N" -> "n" [] s[i] = "F" -> "f"
          [] s[i] = "A" -> "a" [] s[i] = "T" -> "t" [] s[i] = "Y" -> "y"
          [] OTHER -> s[i]]

F32_Bad == [ok |-> FALSE, val |-> F32_NaN]

\* The number once its digits and exponent are known.
ParseF32Value(neg, ip, fp, ev) ==
    IF ~AllDigits(ip) \/ ~AllDigits(fp) \/ Len(ip) + Len(fp) = 0
       \/ Len(ip) + Len(fp) > 9 \/ ~ev.ok
    THEN F32_Bad
    ELSE [ok |-> TRUE,
          val |-> F32_Normalize(neg, CheckedDigits(ip \o fp, 1, 0, FALSE).val,
                                ev.val - Len(fp))]

\* The mantissa split at its decimal point (dot = 0: no point).
ParseF32Mantissa(neg, mant, dot, ev) ==
    IF dot = 0 THEN ParseF32Value(neg, mant, <<>>, ev)
    ELSE ParseF32Value(neg, SubSeq(mant, 1, dot - 1),
                       SubSeq(mant, dot + 1, Len(mant)), ev)

\* The number split at its exponent marker (epos = 0: no exponent).
ParseF32Number(neg, body, epos) ==
    IF epos = 0
    THEN ParseF32Mantissa(neg, body, FirstIn(body, {"."}), [ok |-> TRUE, val |-> 0])
    ELSE ParseF32Mantissa(neg, SubSeq(body, 1, epos - 1),
                          FirstIn(SubSeq(body, 1, epos - 1), {"."}),
                          ParseI32(SubSeq(body, epos + 1, Len(body))))

ParseF32Body(neg, body) ==
    IF LowerAscii(body) \in {<<"i", "n", "f">>,
                             <<"i", "n", "f", "i", "n", "i", "t", "y">>}
    THEN [ok |-> TRUE, val |-> F32_Inf(neg)]
    ELSE IF LowerAscii(body) = <<"n", "a", "n">>
    THEN [ok |-> TRUE, val |-> F32_NaN]
    ELSE ParseF32Number(neg, body, FirstIn(body, {"e", "E"}))

\* str::parse::<f32>: [sign] (inf | infinity | nan | digits [. digits]
\* [e [sign] digits]) with at least one mantissa digit.  Mantissas beyond
\* nine digits are outside the modelled values.
ParseF32(tok) ==
    IF Len(tok) > 0 /\ tok[1] \in {"+", "-"}
    THEN ParseF32Body(tok[1] = "-", Tail(tok))
    ELSE ParseF32Body(FALSE, tok)

\* A Display with the two signs exchanged.
Strand_DisplaySwapped(s) ==
    IF s = "Positive" THEN <<"-">> ELSE <<"+">>

\* impl Display for Strand (record.rs 1442-1449)
Strand_Display(s) ==
    IF s = "Positive" THEN <<"+">> ELSE <<"-">>

\* A parser that takes anything but "-" for the positive strand.
Strand_from_strDefaults(tok) ==
    CASE tok = <<"-">> -> [ok |-> TRUE, val |-> "Negative"]
      [] OTHER -> [ok |-> TRUE, val |-> "Positive"]

\* impl FromStr for Strand (record.rs 1427-1439)
Strand_from_str(tok) ==
    CASE tok = <<"+">> -> [ok |-> TRUE, val |-> "Positive"]
      [] tok = <<"-">> -> [ok |-> TRUE, val |-> "Negative"]
      [] OTHER -> [ok |-> FALSE, val |-> "None"]

\* str::parse::<char>: exactly one character.
ParseChar(tok) ==
    IF Len(tok) = 1 THEN [ok |-> TRUE, val |-> tok[1]]
    ELSE [ok |-> FALSE, val |-> " "]

\* The width and alignment part of a format spec: text at least w wide is
\* emitted unchanged, shorter text is padded with spaces.
PadWith(s, fill, left) ==
    Repeat(" ", left) \o s \o Repeat(" ", fill - left)

PadBy(s, fill, align) ==
    CASE align = "<" -> PadWith(s, fill, 0)
      [] align = ">" -> PadWith(s, fill, fill)
      [] OTHER -> PadWith(s, fill, fill \div 2)

Pad(s, w, align) ==
    IF Len(s) >= w THEN s ELSE PadBy(s, w - Len(s), align)

---------------------------------------------------------------------------
(* Lines and tokens *)

\* str::starts_with('#')
IsComment(line) ==
    Len(line) > 0 /\ line[1] = "#"

\* Whether pat occurs in s at position i.
MatchesAt(s, i, pat) ==
    /\ i + Len(pat) - 1 <= Len(s)
    /\ \A j \in 1..Len(pat) : s[i + j - 1] = pat[j]

\* str::contains
Contains(s, pat) ==
    \E i \in 1..(Len(s) + 1) : MatchesAt(s, i, pat)

\* str::trim
Trim(s) ==
    IF \A i \in 1..Len(s) : IsWhitespace(s[i]) THEN <<>>
    ELSE LET a == CHOOSE i \in 1..Len(s) :
                      ~IsWhitespace(s[i]) /\ \A j \in 1..(i - 1) : IsWhitespace(s[j])
             b == CHOOSE i \in 1..Len(s) :
                      ~IsWhitespace(s[i]) /\ \A j \in (i + 1)..Len(s) : IsWhitespace(s[j])
         IN  SubSeq(s, a, b)

\* The elements of a set of positions in increasing order.
Ascending(S) ==
    [k \in 1..Cardinality(S) |->
        CHOOSE x \in S : Cardinality({y \in S : y < x}) = k - 1]

\* The first occurrence of pat in s at or after position from, or 0.
NextMatch(s, pat, from) ==
    IF \E i \in from..Len(s) : MatchesAt(s, i, pat)
    THEN CHOOSE i \in from..Len(s) :
             MatchesAt(s, i, pat) /\ \A j \in from..(i - 1) : ~MatchesAt(s, j, pat)
    ELSE 0

\* str::split(pat): the pieces between the non-overlapping occurrences of
\* pat, found left to right; always at least one piece.
RECURSIVE SplitFrom(_, _, _, _)
SplitFrom(s, pat, start, at) ==
    IF at = 0 THEN <<SubSeq(s, start, Len(s))>>
    ELSE <<SubSeq(s, start, at - 1)>>
         \o SplitFrom(s, pat, at + Len(pat), NextMatch(s, pat, at + Len(pat)))

Split(s, pat) ==
    SplitFrom(s, pat, 1, NextMatch(s, pat, 1))

\* Where the tokens of str::split_whitespace begin.
TokenStarts(s) ==
    {i \in 1..Len(s) : ~IsWhitespace(s[i]) /\ (i = 1 \/ IsWhitespace(s[i - 1]))}

\* The last character of the token that begins at a.
TokenEnd(s, a) ==
    CHOOSE b \in a..Len(s) :
        /\ \A j \in a..b : ~IsWhitespace(s[j])
        /\ b = Len(s) \/ IsWhitespace(s[b + 1])

TokensAt(s, starts) ==
    [k \in 1..Len(starts) |-> SubSeq(s, starts[k], TokenEnd(s, starts[k]))]

\* str::split_whitespace: the maximal runs of non-whitespace characters.
SplitWhitespace(s) ==
    TokensAt(s, Ascending(TokenStarts(s)))

\* [&str]::join(sep)
RECURSIVE Join(_, _)
Join(parts, sep) ==
    IF Len(parts) = 0 THEN <<>>
    ELSE IF Len(parts) = 1 THEN parts[1]
    ELSE parts[1] \o sep \o Join(Tail(parts), sep)

---------------------------------------------------------------------------
(* The three record schemas: field types in column order, then how Display
   renders each column (alignment and number format). *)

\* DNARecord (record.rs 1017-1035), as read_dna_record fills it.
DnaFields ==
    <<"str", "str", "str", "str",
      "i32", "i32", "i32", "i32", "i32", "i32", "i32",
      "strand", "f32", "f32", "f32">>

\* ProteinRecord (record.rs 744-765), as read_protein_record fills it.
ProteinFields ==
    <<"str", "str", "str", "str",
      "f32", "f32", "f32", "f32", "f32", "f32", "f32",
      "i32", "i32", "i32", "i32", "i32", "i32", "i32">>

\* CMRecord (record.rs 1205-1225), as read_cm_record fills it.
CMFields ==
    <<"str", "str", "str", "str", "str",
      "i32", "i32", "i32", "i32",
      "strand", "str", "i32",
      "f32", "f32", "f32", "f32", "char">>

FieldsOf(variant) ==
    CASE variant = "Dna" -> DnaFields
      [] variant = "Protein" -> ProteinFields
      [] OTHER -> CMFields

\* The format string of impl Display for DNARecord, one entry per column:
\* alignment, then "" (Display), "e" (LowerExp) or ".1" (one decimal).
DnaFormat ==
    <<"<", "<", "<", "<",
      ">", ">", ">", ">", ">", ">", ">",
      "^", ">e", ">", ">", "<">>

\* The format string of impl Display for ProteinRecord.
ProteinFormat ==
    <<"<", "<", "<", "<",
      ">e", ">", ">", ">e", ">", ">", ">.1",
      ">", ">", ">", ">", ">", ">", ">", ">">>

\* The format string of impl Display for CMRecord.
CMFormat ==
    <<"<", "<", "<", "<", "<",
      ">", ">", ">", ">",
      ">", ">", ">",
      ">", ">", ">", ">", "^", "<">>

FormatOf(variant) ==
    CASE variant = "Dna" -> DnaFormat
      [] variant = "Protein" -> ProteinFormat
      [] OTHER -> CMFormat

\* DNARecord::new / ProteinRecord::new / CMRecord::new: f holds the typed
\* fields in column order.
Record_new(variant, f, description, col_sizes) ==
    [variant |-> variant, f |-> f, description |-> description,
     col_sizes |-> col_sizes]

\* One value rendered under one column's format, before padding.
RenderValue(kind, fmt, v) ==
    CASE kind = "i32" -> I32_Display(v)
      [] kind = "strand" -> Strand_Display(v)
      [] kind = "char" -> <<v>>
      [] kind = "f32" ->
            (CASE Len(fmt) > 1 /\ fmt[2] = "e" -> F32_LowerExp(v)
               [] Len(fmt) > 1 /\ fmt[2] = "." -> F32_Fixed1(v)
               [] OTHER -> F32_Display(v))
      [] OTHER -> v

\* Column k (1-based) before padding: a typed field, or the description in
\* the last column.
ColumnText(r, fields, fmt, k) ==
    IF k <= Len(fields) THEN RenderValue(fields[k], fmt, r.f[k])
    ELSE r.description

\* Column k of the record's line: the value in its width.
RenderColumn(r, fmt, k) ==
    Pad(ColumnText(r, FieldsOf(r.variant), fmt, k), r.col_sizes[k], fmt[1])

\* The columns separated by single spaces.
RenderColumns(r, format) ==
    Join([k \in 1..Len(format) |-> RenderColumn(r, Chars(format[k]), k)], <<" ">>)

\* impl Display for DNARecord / ProteinRecord / CMRecord.  The arguments
\* col_sizes[0..n-1] are evaluated before anything is written, so a width
\* list shorter than the column count panics with no output.
Record_Display(r) ==
    IF Len(r.col_sizes) < Len(FormatOf(r.variant))
    THEN [tag |-> "Panic", text |-> <<>>]
    ELSE [tag |-> "Ok", text |-> RenderColumns(r, FormatOf(r.variant))]

---------------------------------------------------------------------------
(* Program (record.rs 444-505) and Meta (record.rs 624-741) *)

KnownPrograms ==
    {"Nhmmer", "Nhmmscan", "Jackhmmer", "Hmmscan", "Hmmsearch", "Phmmer",
     "Cmsearch", "Cmscan"}

\* impl Display for Program, for the eight known programs.
Program_name(p) ==
    CASE p = "Nhmmer" -> Chars("nhmmer")
      [] p = "Nhmmscan" -> Chars("nhmmscan")
      [] p = "Jackhmmer" -> Chars("jackhmmer")
      [] p = "Hmmscan" -> Chars("hmmscan")
      [] p = "Hmmsearch" -> Chars("hmmsearch")
      [] p = "Phmmer" -> Chars("phmmer")
      [] p = "Cmsearch" -> Chars("cmsearch")
      [] OTHER -> Chars("cmscan")

\* impl Display for Program: Program::None is fmt::Error, nothing written.
Program_Display(p) ==
    IF p = "None" THEN [tag |-> "Err", text |-> <<>>]
    ELSE [tag |-> "Ok", text |-> Program_name(p)]

\* A parser that folds the case of the name before matching it.
Program_from_strAnyCase(s) ==
    CASE LowerAscii(s) = Chars("nhmmer") -> [ok |-> TRUE, val |-> "Nhmmer"]
      [] LowerAscii(s) = Chars("nhmmscan") -> [ok |-> TRUE, val |-> "Nhmmscan"]
      [] LowerAscii(s) = Chars("jackhmmer") -> [ok |-> TRUE, val |-> "Jackhmmer"]
      [] LowerAscii(s) = Chars("hmmscan") -> [ok |-> TRUE, val |-> "Hmmscan"]
      [] LowerAscii(s) = Chars("hmmsearch") -> [ok |-> TRUE, val |-> "Hmmsearch"]
      [] LowerAscii(s) = Chars("phmmer") -> [ok |-> TRUE, val |-> "Phmmer"]
      [] LowerAscii(s) = Chars("cmsearch") -> [ok |-> TRUE, val |-> "Cmsearch"]
      [] LowerAscii(s) = Chars("cmscan") -> [ok |-> TRUE, val |-> "Cmscan"]
      [] OTHER -> [ok |-> FALSE, val |-> "None"]

\* impl FromStr for Program
Program_from_str(s) ==
    CASE s = Chars("nhmmer") -> [ok |-> TRUE, val |-> "Nhmmer"]
      [] s = Chars("nhmmscan") -> [ok |-> TRUE, val |-> "Nhmmscan"]
      [] s = Chars("jackhmmer") -> [ok |-> TRUE, val |-> "Jackhmmer"]
      [] s = Chars("hmmscan") -> [ok |-> TRUE, val |-> "Hmmscan"]
      [] s = Chars("hmmsearch") -> [ok |-> TRUE, val |-> "Hmmsearch"]
      [] s = Chars("phmmer") -> [ok |-> TRUE, val |-> "Phmmer"]
      [] s = Chars("cmsearch") -> [ok |-> TRUE, val |-> "Cmsearch"]
      [] s = Chars("cmscan") -> [ok |-> TRUE, val |-> "Cmscan"]
      [] OTHER -> [ok |-> FALSE, val |-> "None"]

\* Meta::default(): Program::None and empty strings / paths.
Meta_default ==
    [program |-> "None", version |-> <<>>, pipeline_mode |-> <<>>,
     query_file |-> <<>>, target_file |-> <<>>, options |-> <<>>,
     current_dir |-> <<>>, date |-> <<>>]

---------------------------------------------------------------------------
(* HeaderReader::read_header (reader.rs 28-86) *)

HeaderTolerance == 3

\* remove_whitespace(line.strip_prefix('#'))
RemoveWhitespace(s) ==
    SelectSeq(s, LAMBDA c : ~IsWhitespace(c))

\* A test that also passes the text with no character at all.
IsSingleCharOrEmpty(s) ==
    \A i \in 1..Len(s) : s[i] = s[1]

\* is_single_char
IsSingleChar(s) ==
    Len(s) > 0 /\ \A i \in 1..Len(s) : s[i] = s[1]

\* What one line does to the Header, and the value hash_counter has when the
\* loop tests it (the counter is a fresh local of each iteration).
HeaderLine(h, line) ==
    IF ~IsComment(line) THEN [header |-> h, hash_counter |-> 1, continued |-> FALSE]
    ELSE IF Contains(line, Chars("full sequence"))
    THEN [header |-> [h EXCEPT !.protein_only = [tag |-> "Some", val |-> line]],
          hash_counter |-> 1, continued |-> TRUE]
    ELSE IF Contains(line, Chars("target name"))
    THEN [header |-> [h EXCEPT !.columns = line],
          hash_counter |-> 1, continued |-> TRUE]
    ELSE IF IsSingleChar(RemoveWhitespace(Tail(line)))
    THEN [header |-> [h EXCEPT !.dashes = line],
          hash_counter |-> 1, continued |-> TRUE]
    ELSE [header |-> h, hash_counter |-> 2, continued |-> FALSE]

\* The loop: r is what the line just read did; `break` when the line did
\* not `continue` and the counter exceeds the tolerance, else the next line.
RECURSIVE ReadHeaderFrom(_, _, _)
ReadHeaderFrom(f, i, r) ==
    IF ~r.continued /\ r.hash_counter > HeaderTolerance
    THEN [header |-> r.header, line |-> i]
    ELSE IF i >= Len(f) THEN [header |-> r.header, line |-> i]
    ELSE ReadHeaderFrom(f, i + 1, HeaderLine(r.header, f[i + 1]))

read_header(f) ==
    ReadHeaderFrom(f, 0, [header |-> Header_default, hash_counter |-> 1,
                          continued |-> TRUE])

---------------------------------------------------------------------------
(* MetaReader::read_meta (reader.rs 103-168) *)

MetaFirstHash == 4

\* The key and the value read_meta takes from a line: the pieces between
\* ": ", each trimmed; the first is the key, the others joined by a space.
MetaKey(pieces) ==
    Trim(pieces[1])

MetaRest(pieces) ==
    Join([k \in 1..(Len(pieces) - 1) |-> Trim(pieces[k + 1])], <<" ">>)

\* metadata.set_program(Program::from_str(&rest).unwrap()): a name that is
\* not one of the eight panics.
SetProgram(m, parsed) ==
    IF parsed.ok THEN [tag |-> "Ok", meta |-> [m EXCEPT !.program = parsed.val]]
    ELSE [tag |-> "Panic", meta |-> m]

\* The match on the key.
MetaMatch(m, first, rest) ==
    CASE first = Chars("# Program") -> SetProgram(m, Program_from_str(rest))
      [] first = Chars("# Version") ->
            [tag |-> "Ok", meta |-> [m EXCEPT !.version = rest]]
      [] first = Chars("# Pipeline mode") ->
            [tag |-> "Ok", meta |-> [m EXCEPT !.pipeline_mode = rest]]
      [] first = Chars("# Query file") ->
            [tag |-> "Ok", meta |-> [m EXCEPT !.query_file = rest]]
      [] first = Chars("# Target file") ->
            [tag |-> "Ok", meta |-> [m EXCEPT !.target_file = rest]]
      [] first = Chars("# Option settings") ->
            [tag |-> "Ok", meta |-> [m EXCEPT !.options = rest]]
      [] first = Chars("# Current dir") ->
            [tag |-> "Ok", meta |-> [m EXCEPT !.current_dir = rest]]
      [] first = Chars("# Date") ->
            [tag |-> "Ok", meta |-> [m EXCEPT !.date = rest]]
      [] OTHER -> [tag |-> "Ok", meta |-> m]

MetaPieces(m, pieces) ==
    MetaMatch(m, MetaKey(pieces), MetaRest(pieces))

\* read_meta without the test on hash_counter: every comment line is
\* matched against the keys.
MetaLineNoSkip(m, line, hashes) ==
    IF IsComment(line)
    THEN MetaPieces(m, Split(line, <<":", " ">>))
    ELSE [tag |-> "Ok", meta |-> m]

\* What one line does to the Meta, hashes being hash_counter after the line
\* was counted: nothing unless it is a comment line and the fourth or later.
MetaLine(m, line, hashes) ==
    IF IsComment(line) /\ hashes >= MetaFirstHash
    THEN MetaPieces(m, Split(line, <<":", " ">>))
    ELSE [tag |-> "Ok", meta |-> m]

RECURSIVE ReadMetaFrom(_, _, _, _)

\* A slip: the loop ends at the first line that is not a comment line.
ReadMetaFromStopsAtData(f, i, r, hashes) ==
    IF r.tag = "Panic" \/ i >= Len(f) \/ ~IsComment(f[i + 1])
    THEN [tag |-> r.tag, meta |-> r.meta, hash_counter |-> hashes, line |-> i]
    ELSE ReadMetaFrom(f, i + 1, MetaLine(r.meta, f[i + 1], hashes + 1), hashes + 1)

\* The loop: r is what the line just read did, i the lines read so far.
ReadMetaFrom(f, i, r, hashes) ==
    IF r.tag = "Panic" \/ i >= Len(f)
    THEN [tag |-> r.tag, meta |-> r.meta, hash_counter |-> hashes, line |-> i]
    ELSE IF IsComment(f[i + 1])
    THEN ReadMetaFrom(f, i + 1, MetaLine(r.meta, f[i + 1], hashes + 1), hashes + 1)
    ELSE ReadMetaFrom(f, i + 1, r, hashes)

read_meta(f) ==
    ReadMetaFrom(f, 0, [tag |-> "Ok", meta |-> Meta_default], 0)

---------------------------------------------------------------------------
(* Reader::read_dna_record / read_protein_record / read_cm_record
   (reader.rs 478-680) *)

\* One token coerced to its field type.  err names the conversion that
\* failed; `?` turns it into the crate's Error.
Coerced(parsed, err) ==
    [ok |-> parsed.ok, val |-> parsed.val, err |-> err]

ParseField(kind, tok) ==
    CASE kind = "i32" -> Coerced(ParseI32(tok), "ParseInt")
      [] kind = "f32" -> Coerced(ParseF32(tok), "ParseFloat")
      [] kind = "strand" -> Coerced(Strand_from_str(tok), "ReadRecord")
      [] kind = "char" -> Coerced(ParseChar(tok), "ParseChar")
      [] OTHER -> [ok |-> TRUE, val |-> tok, err |-> ""]

\* The fields are taken in column order: l_vec[k] panics when the line has
\* no token k, a failed coercion returns the error at once.  r is the
\* coercion of field k - 1.
RECURSIVE DecodeFields(_, _, _, _, _)
DecodeFields(kinds, l_vec, k, acc, r) ==
    IF ~r.ok THEN [tag |-> "Err", f |-> <<>>, err |-> r.err, field |-> k - 1]
    ELSE IF k > Len(kinds) THEN [tag |-> "Ok", f |-> acc, err |-> "", field |-> 0]
    ELSE IF k > Len(l_vec) THEN [tag |-> "Panic", f |-> <<>>, err |-> "", field |-> k]
    ELSE CHOOSE d \in {DecodeFields(kinds, l_vec, next, Append(acc, p.val), p) :
                           next \in {k + 1},
                           p \in {ParseField(kinds[k], l_vec[k])}} : TRUE

\* A decoder that starts the description one token too far.
DescriptionDropsWord(l_vec, n) ==
    Join(SubSeq(l_vec, n + 2, Len(l_vec)), <<" ">>)

\* l_vec[n..].join(" ")
Description(l_vec, n) ==
    Join(SubSeq(l_vec, n + 1, Len(l_vec)), <<" ">>)

\* A slip: the record is built without the widths of the Header.
DecodeResultNoWidths(variant, l_vec, d, col_sizes) ==
    IF d.tag = "Ok"
    THEN [tag |-> "Ok", err |-> "",
          rec |-> Record_new(variant, d.f,
                             Description(l_vec, Len(FieldsOf(variant))), <<>>)]
    ELSE [tag |-> d.tag, err |-> d.err, rec |-> NoRecord]

\* The record built from the coerced fields, or the failure.
DecodeResult(variant, l_vec, d, col_sizes) ==
    IF d.tag = "Ok"
    THEN [tag |-> "Ok", err |-> "",
          rec |-> Record_new(variant, d.f,
                             Description(l_vec, Len(FieldsOf(variant))), col_sizes)]
    ELSE [tag |-> d.tag, err |-> d.err, rec |-> NoRecord]

DecodeTokens(variant, l_vec, col_sizes) ==
    CHOOSE r \in {DecodeResult(variant, l_vec, d, col_sizes) :
                     d \in {DecodeFields(FieldsOf(variant), l_vec, 1, <<>>,
                                         [ok |-> TRUE, val |-> <<>>, err |-> ""])}} : TRUE

\* The body of the loop for one non-comment line.
DecodeLine(variant, line, col_sizes) ==
    CHOOSE d \in {DecodeTokens(variant, l_vec, col_sizes) :
                     l_vec \in {SplitWhitespace(line)}} : TRUE

\* A decoder that leaves a line it could not decode in the stream.
ReadResultRewinds(d, pos) ==
    [tag |-> d.tag, err |-> d.err, rec |-> d.rec,
     pos |-> IF d.tag = "Err" THEN pos - 1 ELSE pos, src |-> pos]

\* What next() gets for the line decoded at position pos.
ReadResult(d, pos) ==
    [tag |-> d.tag, err |-> d.err, rec |-> d.rec, pos |-> pos, src |-> pos]

\* The read loop from stream position pos (lines already consumed): comment
\* lines are read and skipped, the first other line is decoded, end of input
\* gives None.  pos is the position afterwards, src the line decoded.
RECURSIVE ReadRecordFrom(_, _, _, _)
ReadRecordFrom(f, pos, variant, col_sizes) ==
    IF pos >= Len(f)
    THEN [tag |-> "None", err |-> "", rec |-> NoRecord, pos |-> pos, src |-> 0]
    ELSE IF IsComment(f[pos + 1])
    THEN ReadRecordFrom(f, pos + 1, variant, col_sizes)
    ELSE ReadResult(DecodeLine(variant, f[pos + 1], col_sizes), pos + 1)

read_dna_record(f, pos, h) ==
    ReadRecordFrom(f, pos, "Dna", calculate_dashes(h.dashes))

read_protein_record(f, pos, h) ==
    ReadRecordFrom(f, pos, "Protein", calculate_dashes(h.dashes))

read_cm_record(f, pos, h) ==
    ReadRecordFrom(f, pos, "CM", calculate_dashes(h.dashes))

\* RecordsIter::new and RecordsIntoIter::new: the variant for a program;
\* Program::None reaches unreachable!().
RecordsIter_new(program) ==
    CASE program \in {"Nhmmer", "Nhmmscan"} -> "Dna"
      [] program \in {"Jackhmmer", "Hmmscan", "Hmmsearch", "Phmmer"} -> "Protein"
      [] program \in {"Cmsearch", "Cmscan"} -> "CM"
      [] OTHER -> "Panic"

\* An owned iterator that files hmmsearch under the sequence schema.
RecordsIntoIter_newMisfiled(program) ==
    CASE program \in {"Nhmmer", "Nhmmscan", "Hmmsearch"} -> "Dna"
      [] program \in {"Jackhmmer", "Hmmscan", "Phmmer"} -> "Protein"
      [] program \in {"Cmsearch", "Cmscan"} -> "CM"
      [] OTHER -> "Panic"

RecordsIntoIter_new(program) ==
    CASE program \in {"Nhmmer", "Nhmmscan"} -> "Dna"
      [] program \in {"Jackhmmer", "Hmmscan", "Hmmsearch", "Phmmer"} -> "Protein"
      [] program \in {"Cmsearch", "Cmscan"} -> "CM"
      [] OTHER -> "Panic"

\* The read function each iterator variant calls in next().
ReadFor(variant, f, pos, h) ==
    CASE variant = "Dna" -> read_dna_record(f, pos, h)
      [] variant = "Protein" -> read_protein_record(f, pos, h)
      [] OTHER -> read_cm_record(f, pos, h)

---------------------------------------------------------------------------
(* Writer (writer.rs) with impl Display for Meta and Header *)

\* write!: the text is appended.
Write(w, text) ==
    w \o text

\* A writeln! that forgets the line terminator.
WritelnNoTerminator(w, text) ==
    w \o text

\* writeln!: the text and a line feed are appended.
Writeln(w, text) ==
    w \o text \o <<"\n">>

\* trim_newline (record.rs 516-523)
trim_newline(s) ==
    IF Len(s) > 0 /\ s[Len(s)] = "\n"
    THEN LET t == SubSeq(s, 1, Len(s) - 1)
         IN  IF Len(t) > 0 /\ t[Len(t)] = "\r" THEN SubSeq(t, 1, Len(t) - 1) ELSE t
    ELSE s

\* impl Display for Header (record.rs 514-539)
Header_Display(h) ==
    (IF h.protein_only.tag = "Some"
     THEN Writeln(<<>>, trim_newline(h.protein_only.val)) ELSE <<>>)
    \o Writeln(<<>>, trim_newline(h.columns))
    \o trim_newline(h.dashes)

\* impl Display for Meta (record.rs 646-659).  Display for Program::None
\* returns fmt::Error, after "#" and the Program label have been written.
Meta_Display(m) ==
    IF m.program = "None"
    THEN [tag |-> "Err", text |-> Chars("#\n# Program:         ")]
    ELSE [tag |-> "Ok",
          text |->
                  Writeln(Chars("#\n# Program:         "), Program_name(m.program))
                  \o Writeln(Chars("# Version:         "), m.version)
                  \o Writeln(Chars("# Pipeline mode:   "), m.pipeline_mode)
                  \o Writeln(Chars("# Query file:      "), m.query_file)
                  \o Writeln(Chars("# Target file:     "), m.target_file)
                  \o Writeln(Chars("# Options:         "), m.options)
                  \o Writeln(Chars("# Current dir:     "), m.current_dir)
                  \o Writeln(Chars("# Date:            "), m.date)
                  \o Chars("# [ok]")]

\* Where the lines of a text end: at each line feed, and at the end of a
\* text that does not close its last line.
LineEnds(s) ==
    {i \in 1..Len(s) : s[i] = "\n" \/ i = Len(s)}

LinesAt(s, ends) ==
    [k \in 1..Len(ends) |->
        SubSeq(s, IF k = 1 THEN 1 ELSE ends[k - 1] + 1, ends[k])]

\* The lines of a text, as read_line delivers them.
Lines(s) ==
    LinesAt(s, Ascending(LineEnds(s)))

---------------------------------------------------------------------------
(* The inputs the model is run on *)

MaxDashLen == 5

MaxBody == 3

MaxDescLen == 3

MaxEndPulls == 2

MaxWrites == 3

NoResult == [tag |-> "Unset"]

NoIter == [kind |-> "none", variant |-> "None"]

\* Dash lines: every text over these characters up to MaxDashLen, and a few
\* full-length lines (the first two are the examples of the specification).
DashAlphabet == {"-", "#", " ", "x", "\n"}

DashExamples ==
    {Chars("#---- --- ----------"),
     Chars("#---- ----"),
     Chars("#---- ----\n"),
     Chars("#-- --   --- -\r\n"),
     Chars("#------------------- ---------- -------------------- ---------- ------- ------- ------- ------- ------- ------- ------- ------ --------- ------ ----- ---------------------\n")}

DashLines ==
    SeqsUpTo(DashAlphabet, MaxDashLen) \cup DashExamples

\* Heading blocks of an input: none; column labels and a two-column dash
\* line; banner, column labels and a sixteen-column dash line.
ColumnsLine == Chars("# target name  accession\n")

BannerLine == Chars("#   --- full sequence ---\n")

Dash2 == Chars("#---- ----\n")

Dash16 == Chars("#-- -- -- -- -- -- -- -- -- -- -- -- ------ ---- --- ----\n")

Tops ==
    {<<>>, <<ColumnsLine, Dash2>>, <<BannerLine, ColumnsLine, Dash16>>}

\* The trailing block: a bare comment line, the Program line when there is
\* one, and the closing line.
ProgramNames ==
    {Program_name(p) : p \in KnownPrograms} \cup {Chars("unknown_tool")}

ProgramLine(name) ==
    Chars("# Program:         ") \o name \o <<"\n">>

Bottoms ==
    {<<Chars("#\n"), Chars("# [ok]\n")>>}
    \cup {<<Chars("#\n"), ProgramLine(n), Chars("# [ok]\n")>> : n \in ProgramNames}

BottomFor(p) ==
    <<Chars("#\n"), ProgramLine(Program_name(p)), Chars("# [ok]\n")>>

\* Data lines per schema: two well-formed rows (with and without a
\* description), a row with a malformed integer, a row with too few tokens,
\* an empty line, and an interleaved comment line.
ShortLine == Chars("t4 - q1\n")

EmptyLine == Chars("\n")

NoteLine == Chars("# note\n")

DnaRow1 == Chars("t1 - q1 - 1 5 2 6 1 7 9 + 1.5e-5 12.5 0.1 desc one\n")

DnaRow2 == Chars("t2 a2 q2 b2 30 40 -3 4 5 6 70 - 2e-3 7 0\n")

DnaBadInt == Chars("t3 - q1 - 1 x5 2 6 1 7 9 + 1e-5 12.5 0.1\n")

ProteinRow1 ==
    Chars("t1 - q1 - 1.5e-5 12.5 0.1 2e-3 7 0 1.0 1 0 0 1 1 1 1 desc one\n")

ProteinRow2 == Chars("t2 a2 q2 b2 2e-3 7 0 1.5e-5 12.5 0.1 2.5 3 2 1 3 3 2 2\n")

ProteinBadInt == Chars("t3 - q1 - 1.5e-5 12.5 0.1 2e-3 7 0 1.0 x5 0 0 1 1 1 1\n")

CMRow1 == Chars("t1 - q1 - cm 1 5 2 6 + no 1 0.5 0.1 12.5 1.5e-5 ! desc one\n")

CMRow2 == Chars("t2 a2 q2 b2 hmm 30 40 6 2 - 5' 2 0.4 0 7 2e-3 ?\n")

CMBadInt == Chars("t3 - q1 - cm 1 x5 2 6 + no 1 0.5 0.1 12.5 1.5e-5 !\n")

RowsOf(variant) ==
    CASE variant = "Dna" -> {DnaRow1, DnaRow2, DnaBadInt}
      [] variant = "Protein" -> {ProteinRow1, ProteinRow2, ProteinBadInt}
      [] OTHER -> {CMRow1, CMRow2, CMBadInt}

BodyLines(variant) ==
    RowsOf(variant) \cup {ShortLine, EmptyLine, NoteLine}

\* Every trailing block over a one-row body, and for one program of each
\* schema every body of up to MaxBody lines.
Files ==
    {t \o <<DnaRow1>> \o b : t \in Tops, b \in Bottoms}
    \cup UNION {{t \o body \o BottomFor(p) :
                    t \in Tops,
                    body \in SeqsUpTo(BodyLines(RecordsIter_new(p)), MaxBody)} :
                p \in {"Nhmmer", "Hmmscan", "Cmscan"}}
    \cup UNION {{t \o <<r>> \o BottomFor(p) :
                    t \in Tops, r \in RowsOf(RecordsIter_new(p))} :
                p \in KnownPrograms}

\* Records handed to the Writer.
SampleNames == {Chars("t1"), Chars("#t"), Chars("-")}

SampleInts == {0, 42, -7, I32_MAX, I32_MIN}

SampleFloats == {F32(FALSE, 0, 0), F32(FALSE, 15, -6), F32(TRUE, 125, -1)}

SampleChars == {"!", "?"}

SampleValue(kind, k, name, i, strand, x, c) ==
    CASE kind = "i32" -> i
      [] kind = "f32" -> x
      [] kind = "strand" -> strand
      [] kind = "char" -> c
      [] OTHER -> IF k = 1 THEN name ELSE Chars("q1")

SampleRecord(variant, name, i, strand, x, c, description, col_sizes) ==
    Record_new(variant,
               [k \in 1..Len(FieldsOf(variant)) |->
                   SampleValue(FieldsOf(variant)[k], k, name, i, strand, x, c)],
               description, col_sizes)

Variants == {"Dna", "Protein", "CM"}

Descriptions ==
    SeqsUpTo({"a", " "}, MaxDescLen) \cup {<<"a", "\t", "a">>}

\* Width lists with the schema's column count: all narrow, all wide.
SampleWidths == {1, 12}

FullWidths(variant) ==
    {Repeat(w, Len(FormatOf(variant))) : w \in SampleWidths}

\* Width lists that are too short: empty, and two columns.
ShortWidths ==
    {<<>>, <<5, 4>>}

RoundTripRecords ==
    UNION {{SampleRecord(v, n, i, s, x, c, d, w) :
               n \in SampleNames, i \in SampleInts \ {42},
               s \in {"Positive", "Negative"}, x \in SampleFloats,
               c \in {"!", " "},
               d \in Descriptions, w \in FullWidths(v)} :
           v \in Variants}

WriterRecords ==
    UNION {{SampleRecord(v, Chars("t1"), i, "Positive", x, c, Chars("a b"), w) :
               i \in {42, -7}, x \in SampleFloats, c \in SampleChars,
               w \in FullWidths(v) \cup ShortWidths} :
           v \in Variants}

WriterMetas ==
    {Meta_default,
     [program |-> "Nhmmer", version |-> Chars("3.4"),
      pipeline_mode |-> Chars("SEARCH"), query_file |-> Chars("q.hmm"),
      target_file |-> Chars("t.fa"), options |-> Chars("--tblout x"),
      current_dir |-> Chars("/tmp"), date |-> Chars("Mon")]}

WriterHeaders ==
    {Header_default,
     Header_new(Option_None, ColumnsLine, Dash2),
     Header_new([tag |-> "Some", val |-> BannerLine], ColumnsLine, Dash16)}

---------------------------------------------------------------------------
(* Initial states *)

ReaderIdle ==
    /\ file = <<>>
    /\ rpos = 0
    /\ line_no = 0
    /\ iter = NoIter
    /\ items = <<>>

WriterIdle ==
    /\ rec = NoRecord
    /\ out = <<>>
    /\ wlog = <<>>
    /\ decoded = NoResult

\* A program about to open one of the inputs.
Init ==
    /\ pc = "start"
    /\ file \in Files
    /\ header = Header_default
    /\ meta = Meta_default
    /\ rpos = 0
    /\ line_no = 0
    /\ iter = NoIter
    /\ items = <<>>
    /\ lengths = <<>>
    /\ WriterIdle

\* A Header built by Header::new around a dash line.
InitDashes ==
    /\ pc = "header"
    /\ header \in {Header_new(Option_None, <<>>, d) : d \in DashLines}
    /\ meta = Meta_default
    /\ lengths = <<>>
    /\ ReaderIdle
    /\ WriterIdle

\* A fresh Writer and a record to round-trip through it.
InitRoundTrip ==
    /\ pc = "writer"
    /\ rec \in RoundTripRecords
    /\ header = Header_new(Option_None, ColumnsLine, Dash2)
    /\ meta = Meta_default
    /\ out = <<>>
    /\ wlog = <<>>
    /\ decoded = NoResult
    /\ lengths = <<>>
    /\ ReaderIdle

\* A fresh Writer with a Meta, a Header and a record to write.
InitWriter ==
    /\ pc = "writer"
    /\ rec \in WriterRecords
    /\ header \in WriterHeaders
    /\ meta \in WriterMetas
    /\ out = <<>>
    /\ wlog = <<>>
    /\ decoded = NoResult
    /\ lengths = <<>>
    /\ ReaderIdle

---------------------------------------------------------------------------
(* Operations *)

\* Header::calculate_dashes called on the Header.
CalculateDashes ==
    /\ pc = "header"
    /\ lengths' = calculate_dashes(header.dashes)
    /\ pc' = "calculated"
    /\ UNCHANGED <<file, header, meta, rpos, line_no, iter, items, rec, out,
                   wlog, decoded>>

\* A Reader that goes on from where the header pass stopped reading.
Reader_from_readerSharedStream ==
    /\ pc = "start"
    /\ \E h \in {read_header(file)}, m \in {read_meta(file)} :
          /\ IF m.tag = "Panic"
             THEN /\ pc' = "panicked in read_meta"
                  /\ UNCHANGED <<header, meta>>
             ELSE /\ pc' = "ready"
                  /\ header' = h.header
                  /\ meta' = m.meta
          /\ rpos' = h.line
    /\ line_no' = 0
    /\ UNCHANGED <<file, iter, items, lengths, rec, out, wlog, decoded>>

\* Reader::from_path / Reader::from_reader: the header pass, the metadata
\* pass, then Reader::new on a third view of the input from its start.
Reader_from_reader ==
    /\ pc = "start"
    /\ \E h \in {read_header(file)}, m \in {read_meta(file)} :
          IF m.tag = "Panic"
          THEN /\ pc' = "panicked in read_meta"
               /\ UNCHANGED <<header, meta>>
          ELSE /\ pc' = "ready"
               /\ header' = h.header
               /\ meta' = m.meta
    /\ rpos' = 0
    /\ line_no' = 0
    /\ UNCHANGED <<file, iter, items, lengths, rec, out, wlog, decoded>>

\* Reader::records
Reader_records ==
    /\ pc = "ready"
    /\ IF RecordsIter_new(meta.program) = "Panic"
       THEN /\ pc' = "panicked in records"
            /\ UNCHANGED iter
       ELSE /\ pc' = "iterating"
            /\ iter' = [kind |-> "borrowed", variant |-> RecordsIter_new(meta.program)]
    /\ UNCHANGED <<file, header, meta, rpos, line_no, items, lengths, rec, out,
                   wlog, decoded>>

\* Reader::into_records
Reader_into_records ==
    /\ pc = "ready"
    /\ IF RecordsIntoIter_new(meta.program) = "Panic"
       THEN /\ pc' = "panicked in records"
            /\ UNCHANGED iter
       ELSE /\ pc' = "iterating"
            /\ iter' = [kind |-> "owned", variant |-> RecordsIntoIter_new(meta.program)]
    /\ UNCHANGED <<file, header, meta, rpos, line_no, items, lengths, rec, out,
                   wlog, decoded>>

\* How many None results end the items.
RECURSIVE TrailingNones(_)
TrailingNones(its) ==
    IF Len(its) = 0 \/ its[Len(its)].tag # "None" THEN 0
    ELSE 1 + TrailingNones(SubSeq(its, 1, Len(its) - 1))

\* Iterator::next of the record iterators (reader.rs 235-290, 388-443).
\* Reader.line counts every line read, and once more for a record.
Iterator_next ==
    /\ pc = "iterating"
    /\ TrailingNones(items) < MaxEndPulls
    /\ \E r \in {ReadFor(iter.variant, file, rpos, header)} :
           /\ rpos' = r.pos
           /\ line_no' = line_no + (r.pos - rpos) + (IF r.tag = "Ok" THEN 1 ELSE 0)
           /\ IF r.tag = "Panic"
              THEN /\ pc' = "panicked in next"
                   /\ UNCHANGED items
              ELSE /\ pc' = pc
                   /\ items' = Append(items, [tag |-> r.tag, err |-> r.err,
                                              rec |-> r.rec, src |-> r.src])
    /\ UNCHANGED <<file, header, meta, iter, lengths, rec, out, wlog, decoded>>

\* How write! ends for what Display returned.  When Display fails although
\* the stream did not, io::Write::write_fmt returns an io::Error in some
\* releases of the standard library and panics in others.
WriteFmtOutcomes(tag) ==
    IF tag = "Err" THEN {"Err", "Panic"} ELSE {"Ok"}

\* Writer::write_meta.  What Display wrote before it failed has reached the
\* Writer's buffer.
Writer_write_meta ==
    /\ pc = "writer"
    /\ Len(wlog) < MaxWrites
    /\ \E d \in {Meta_Display(meta)} :
          /\ out' = Write(out, d.text)
          /\ \E ends \in WriteFmtOutcomes(d.tag) :
                IF ends = "Panic"
                THEN /\ pc' = "panicked in write_meta"
                     /\ UNCHANGED wlog
                ELSE /\ pc' = pc
                     /\ wlog' = Append(wlog, [op |-> "write_meta", result |-> ends])
    /\ UNCHANGED <<file, header, meta, rpos, line_no, iter, items, lengths,
                   rec, decoded>>

\* Writer::write_header
Writer_write_header ==
    /\ pc = "writer"
    /\ Len(wlog) < MaxWrites
    /\ out' = Writeln(out, Header_Display(header))
    /\ wlog' = Append(wlog, [op |-> "write_header", result |-> "Ok"])
    /\ UNCHANGED <<pc, file, header, meta, rpos, line_no, iter, items, lengths,
                   rec, decoded>>

\* Writer::write_record
Writer_write_record ==
    /\ pc = "writer"
    /\ Len(wlog) < MaxWrites
    /\ \E d \in {Record_Display(rec)} :
          IF d.tag = "Panic"
          THEN /\ pc' = "panicked in write_record"
               /\ UNCHANGED <<out, wlog>>
          ELSE /\ pc' = pc
               /\ out' = Writeln(out, d.text)
               /\ wlog' = Append(wlog, [op |-> "write_record", result |-> "Ok"])
    /\ UNCHANGED <<file, header, meta, rpos, line_no, iter, items, lengths,
                   rec, decoded>>

\* The record's line decoded again: the Writer's output is the data stream
\* of a Reader with the same Header, read by the record's own schema.
DecodeWritten ==
    /\ pc = "writer"
    /\ wlog # <<>>
    /\ decoded = NoResult
    /\ decoded' = ReadFor(rec.variant, Lines(out), 0, header)
    /\ UNCHANGED <<pc, file, header, meta, rpos, line_no, iter, items, lengths,
                   rec, out, wlog>>

---------------------------------------------------------------------------
(* Specifications *)

Next ==
    \/ Reader_from_reader
    \/ Reader_records
    \/ Reader_into_records
    \/ Iterator_next

Spec == Init /\ [][Next]_vars

\* The caller keeps pulling: a `for` loop over the records calls next()
\* again as long as the last call returned an item.  The inputs are the
\* nhmmer files with two heading lines and up to MaxPullBody body lines.
MaxPullBody == 2

InitPulls ==
    /\ pc = "start"
    /\ file \in {<<ColumnsLine, Dash2>> \o body \o BottomFor("Nhmmer") :
                    body \in SeqsUpTo(BodyLines("Dna"), MaxPullBody)}
    /\ header = Header_default
    /\ meta = Meta_default
    /\ rpos = 0
    /\ line_no = 0
    /\ iter = NoIter
    /\ items = <<>>
    /\ lengths = <<>>
    /\ WriterIdle

SpecPulls == InitPulls /\ [][Next]_vars /\ WF_vars(Iterator_next)

NextDashes == CalculateDashes

SpecDashes == InitDashes /\ [][NextDashes]_vars

\* One record written once and read back.
WriteOnce ==
    /\ wlog = <<>>
    /\ Writer_write_record

NextRoundTrip ==
    \/ WriteOnce
    \/ DecodeWritten

SpecRoundTrip == InitRoundTrip /\ [][NextRoundTrip]_vars

NextWriter ==
    \/ Writer_write_meta
    \/ Writer_write_header
    \/ Writer_write_record

SpecWriter == InitWriter /\ [][NextWriter]_vars

\* The Writer's output opened again: Reader::from_reader on what was
\* written so far.  The header pass and the metadata pass each read the
\* whole output; decoded keeps what they found, next to the Header and the
\* Meta that were written.
Reader_from_readerWritten ==
    /\ pc = "writer"
    /\ wlog # <<>>
    /\ file' = Lines(out)
    /\ \E h \in {read_header(Lines(out))}, m \in {read_meta(Lines(out))} :
          IF m.tag = "Panic"
          THEN /\ pc' = "panicked in read_meta"
               /\ UNCHANGED decoded
          ELSE /\ pc' = "ready"
               /\ decoded' = [tag |-> "Reader", header |-> h.header, meta |-> m.meta]
    /\ rpos' = 0
    /\ line_no' = 0
    /\ UNCHANGED <<header, meta, iter, items, lengths, rec, out, wlog>>

NextReopen ==
    \/ Writer_write_meta
    \/ Writer_write_header
    \/ Writer_write_record
    \/ Reader_from_readerWritten

SpecReopen == InitWriter /\ [][NextReopen]_vars

---------------------------------------------------------------------------
(* HeaderReader::read_header on its own *)

MaxMarkLen == 2

MaxHeadLines == 3

MaxNotes == 5

\* Lines for the header pass: '#' and every text over a few characters up
\* to MaxMarkLen, and lines with other fills and terminators.
HeaderMarkLines ==
    {<<"#">> \o w \o <<"\n">> : w \in SeqsUpTo({"-", " ", "x"}, MaxMarkLen)}
    \cup {Chars("#== ==\n"), Chars("#-=\n"), Chars("#---"), Chars("#"),
          Chars("#\t-\t-\n"), Chars("#-- target name --\n"),
          Chars("#-- full sequence --\n")}

\* The heading lines, a bare '#', a comment of no heading shape, a dash
\* line ending in "\r\n", a data row, and a dash line that is no comment.
HeaderKeyLines ==
    {ColumnsLine, BannerLine, Dash2, NoteLine, DnaRow1, Chars("#\n"),
     Chars("#-\n"), Chars("#---\r\n"), Chars("----\n")}

\* Inputs of one line, inputs of up to MaxHeadLines key lines, and heading
\* lines after up to MaxNotes comment lines of no heading shape.
HeaderFiles ==
    {<<l>> : l \in HeaderMarkLines}
    \cup SeqsUpTo(HeaderKeyLines, MaxHeadLines)
    \cup {Repeat(NoteLine, n) \o t \o <<DnaRow1>> :
             n \in 0..MaxNotes, t \in Tops \ {<<>>}}

InitHeader ==
    /\ pc = "scan"
    /\ file \in HeaderFiles
    /\ header = Header_default
    /\ meta = Meta_default
    /\ rpos = 0
    /\ line_no = 0
    /\ iter = NoIter
    /\ items = <<>>
    /\ lengths = <<>>
    /\ WriterIdle

\* HeaderReader::read_header; HeaderReader.line counts the lines read.
HeaderReader_read_header ==
    /\ pc = "scan"
    /\ \E r \in {read_header(file)} :
          /\ header' = r.header
          /\ line_no' = r.line
    /\ pc' = "scanned"
    /\ UNCHANGED <<file, meta, rpos, iter, items, lengths, rec, out, wlog,
                   decoded>>

NextHeader == HeaderReader_read_header

SpecHeader == InitHeader /\ [][NextHeader]_vars

---------------------------------------------------------------------------
(* The metadata pass on its own: MetaReader::read_meta over inputs that
   carry keys before and after the fourth comment line *)

MaxMetaLines == 5

VersionLine == Chars("# Version:         3.3\n")

\* A bare comment line, a supported and an unsupported Program line, a
\* Version line and a data row, in every order up to MaxMetaLines lines.
MetaScanLines ==
    {Chars("#\n"), ProgramLine(Chars("nhmmer")), ProgramLine(Chars("unknown_tool")),
     VersionLine, DnaRow1}

\* Key lines whose value has a second ": ", a key without a delimiter and a
\* label that is not a key.
MetaValueLines ==
    {Chars("# Date:            Mon: 10\n"),
     Chars("# Option settings: -E 1: 2\n"),
     Chars("# Query file:      a:  b\n"),
     Chars("# Target file:     db.fa\n"),
     Chars("# Current dir:     /tmp\n"),
     Chars("# Pipeline mode:   SCAN\n"),
     Chars("# Date\n"),
     Chars("# Note:            x\n")}

\* Every order of the scan lines up to MaxMetaLines; each value line as the
\* fourth comment line; and a key line after a run of data rows.
MetaFiles ==
    SeqsUpTo(MetaScanLines, MaxMetaLines)
    \cup {<<Chars("#\n"), Chars("#\n"), Chars("#\n"), l>> : l \in MetaValueLines}
    \cup {<<Chars("#\n"), Chars("#\n"), Chars("#\n")>> \o Repeat(DnaRow1, n) \o <<l>> :
             n \in 1..(MaxMetaLines + 1), l \in MetaValueLines \cup {VersionLine}}

InitMeta ==
    /\ pc = "meta"
    /\ file \in MetaFiles
    /\ header = Header_default
    /\ meta = Meta_default
    /\ rpos = 0
    /\ line_no = 0
    /\ iter = NoIter
    /\ items = <<>>
    /\ lengths = <<>>
    /\ WriterIdle

\* MetaReader::read_meta; MetaReader.line counts the lines read.  The
\* unwrap on an unsupported Program name ends the program.
MetaReader_read_meta ==
    /\ pc = "meta"
    /\ \E m \in {read_meta(file)} :
          /\ pc' = IF m.tag = "Panic" THEN "panicked in read_meta" ELSE "meta scanned"
          /\ meta' = m.meta
          /\ line_no' = m.line
    /\ UNCHANGED <<file, header, rpos, iter, items, lengths, rec, out, wlog,
                   decoded>>

NextMeta == MetaReader_read_meta

SpecMeta == InitMeta /\ [][NextMeta]_vars

---------------------------------------------------------------------------
(* The Strand and Program codecs on their own: a text to parse or a value
   to render, and the calls in any order *)

MaxWordLen == 2

MaxCodecSteps == 3

\* Texts handed to the parsers: every text over a few glyphs up to
\* MaxWordLen, the eight names, and near misses of a name.
CodecWords ==
    SeqsUpTo({"+", "-", " ", "x"}, MaxWordLen)
    \cup {Program_name(p) : p \in KnownPrograms}
    \cup {Chars("Nhmmer"), Chars("NHMMER"), Chars("hmmSearch"), Chars(" nhmmer"),
          Chars("cmscan "), Chars("cmscan\n"), Chars("hmmer"), Chars("none"),
          Chars("None"), Chars("nhmmer nhmmer"), Chars("+ "), Chars("+\n"),
          Chars("+-+")}

\* Values handed to Display.
CodecValues ==
    {[tag |-> "Ok", of |-> "Strand", val |-> v] : v \in {"Positive", "Negative"}}
    \cup {[tag |-> "Ok", of |-> "Program", val |-> v] : v \in KnownPrograms \cup {"None"}}

\* What a parser's caller holds afterwards.
Parsed(of, r) ==
    [tag |-> IF r.ok THEN "Ok" ELSE "Err", of |-> of, val |-> r.val]

InitCodec ==
    /\ pc = "codec"
    /\ \/ out \in CodecWords /\ decoded = NoResult
       \/ out = <<>> /\ decoded \in CodecValues
    /\ rec = NoRecord
    /\ wlog = <<>>
    /\ header = Header_default
    /\ meta = Meta_default
    /\ lengths = <<>>
    /\ ReaderIdle

\* text.parse::<Strand>()
Strand_parse ==
    /\ pc = "codec"
    /\ Len(wlog) < MaxCodecSteps
    /\ \E r \in {Parsed("Strand", Strand_from_str(out))} :
          /\ decoded' = r
          /\ wlog' = Append(wlog, [op |-> "Strand::from_str", result |-> r.tag])
    /\ UNCHANGED <<pc, file, header, meta, rpos, line_no, iter, items, lengths,
                   rec, out>>

\* write!(f, "{}", strand) into an empty buffer
Strand_fmt ==
    /\ pc = "codec"
    /\ Len(wlog) < MaxCodecSteps
    /\ decoded.tag = "Ok" /\ decoded.of = "Strand"
    /\ out' = Strand_Display(decoded.val)
    /\ wlog' = Append(wlog, [op |-> "Strand::fmt", result |-> "Ok"])
    /\ UNCHANGED <<pc, file, header, meta, rpos, line_no, iter, items, lengths,
                   rec, decoded>>

\* Program::from_str(text)
Program_parse ==
    /\ pc = "codec"
    /\ Len(wlog) < MaxCodecSteps
    /\ \E r \in {Parsed("Program", Program_from_str(out))} :
          /\ decoded' = r
          /\ wlog' = Append(wlog, [op |-> "Program::from_str", result |-> r.tag])
    /\ UNCHANGED <<pc, file, header, meta, rpos, line_no, iter, items, lengths,
                   rec, out>>

\* write!(f, "{}", program) into an empty buffer
Program_fmt ==
    /\ pc = "codec"
    /\ Len(wlog) < MaxCodecSteps
    /\ decoded.tag = "Ok" /\ decoded.of = "Program"
    /\ \E d \in {Program_Display(decoded.val)} :
          /\ out' = d.text
          /\ wlog' = Append(wlog, [op |-> "Program::fmt", result |-> d.tag])
    /\ UNCHANGED <<pc, file, header, meta, rpos, line_no, iter, items, lengths,
                   rec, decoded>>

NextCodec ==
    \/ Strand_parse
    \/ Strand_fmt
    \/ Program_parse
    \/ Program_fmt

SpecCodec == InitCodec /\ [][NextCodec]_vars

---------------------------------------------------------------------------
(* Column widths from the dash line *)

\* Whether every piece is a non-empty run of fill characters.
FillRuns(runs) ==
    \A k \in 1..Len(runs) :
        /\ Len(runs[k]) > 0
        /\ \A j \in 1..Len(runs[k]) : runs[k][j] \in {"-", "#"}

RunLengths(runs) ==
    [k \in 1..Len(runs) |-> Len(runs[k])]

\* C1: for a dash line made of k >= 1 runs of '-' or '#' separated by
\* exactly one space each, with no leading or trailing space,
\* calculate_dashes returns k widths, the i-th being the number of fill
\* characters of the i-th run, left to right.
C1_WidthPerRun ==
    (pc = "calculated" /\ FillRuns(Split(header.dashes, <<" ">>)))
        => lengths = RunLengths(Split(header.dashes, <<" ">>))

\* The example of the specification has been calculated.
C1_Witness ==
    /\ pc = "calculated"
    /\ header.dashes = Chars("#---- --- ----------")
    /\ lengths = <<5, 3, 10>>

---------------------------------------------------------------------------
(* Round trip of a record through its line *)

\* The fields the round trip speaks of: everything but the floats.
ExactFields(variant) ==
    {k \in 1..Len(FieldsOf(variant)) : FieldsOf(variant)[k] # "f32"}

SameExactFields(a, b) ==
    /\ a.variant = b.variant
    /\ \A k \in ExactFields(b.variant) : a.f[k] = b.f[k]

\* A space with a character that is not a space somewhere before it and
\* somewhere after it.
InteriorSpace(d, i) ==
    /\ d[i] = " "
    /\ \E j \in 1..(i - 1) : d[j] # " "
    /\ \E j \in (i + 1)..Len(d) : d[j] # " "

NoInteriorSpaceRun(d) ==
    \A i \in 1..(Len(d) - 1) : ~(InteriorSpace(d, i) /\ InteriorSpace(d, i + 1))

\* Words separated by single spaces: no whitespace first or last, none but
\* the space, and no two in a row.
SingleSpacedWords(d) ==
    \A i \in 1..Len(d) :
        IsWhitespace(d[i]) =>
            /\ d[i] = " "
            /\ 1 < i /\ i < Len(d)
            /\ ~IsWhitespace(d[i + 1])

\* The string fields are non-empty and free of whitespace.
StringFieldsPlain(r) ==
    \A k \in 1..Len(r.f) :
        FieldsOf(r.variant)[k] = "str" =>
            /\ Len(r.f[k]) > 0
            /\ \A j \in 1..Len(r.f[k]) : ~IsWhitespace(r.f[k][j])

\* The inclusion flag, where the schema has one, is not whitespace.
FlagVisible(r) ==
    \A k \in 1..Len(r.f) :
        FieldsOf(r.variant)[k] = "char" => ~IsWhitespace(r.f[k])

\* The record's line has been written and read back.
ReadBack ==
    /\ decoded # NoResult
    /\ StringFieldsPlain(rec)
    /\ Len(rec.col_sizes) = Len(FormatOf(rec.variant))

\* C2 as stated: the line of a record with plain string fields and a full
\* width list decodes to a record equal in every string, integer, strand
\* and inclusion-flag field, and in the description when that has no run of
\* two or more interior spaces.
C2_AsStated ==
    ReadBack =>
        /\ decoded.tag = "Ok"
        /\ SameExactFields(decoded.rec, rec)
        /\ NoInteriorSpaceRun(rec.description)
               => decoded.rec.description = rec.description

\* C2, amended: the same for records whose target name does not begin
\* with '#' and whose inclusion flag is not whitespace, the description
\* being recovered when it is words separated by single spaces.
C2_RoundTrip ==
    (ReadBack /\ rec.f[1][1] # "#" /\ FlagVisible(rec)) =>
        /\ decoded.tag = "Ok"
        /\ SameExactFields(decoded.rec, rec)
        /\ SingleSpacedWords(rec.description)
               => decoded.rec.description = rec.description

\* A model record with a negative strand and a two-word description has
\* been read back from its line.
C2_Witness ==
    /\ ReadBack
    /\ rec.variant = "CM"
    /\ rec.f[1] = Chars("t1")
    /\ rec.f[10] = "Negative"
    /\ rec.f[6] = I32_MIN
    /\ rec.description = Chars("a a")
    /\ decoded.tag = "Ok"
    /\ decoded.rec.description = rec.description

---------------------------------------------------------------------------
(* Decoding of a sequence-schema line *)

\* At least the fifteen fixed tokens, each of the typed ones coercible.
DnaLineWellFormed(toks) ==
    /\ Len(toks) >= 15
    /\ \A k \in 5..11 : ParseI32(toks[k]).ok
    /\ Strand_from_str(toks[12]).ok
    /\ \A k \in 13..15 : ParseF32(toks[k]).ok

\* The item is the record whose fields are the tokens, position by
\* position, and whose description is tokens 15.. joined by single spaces.
DnaDecodedAs(it, toks) ==
    /\ it.tag = "Ok"
    /\ it.rec.variant = "Dna"
    /\ \A k \in 1..4 : it.rec.f[k] = toks[k]
    /\ \A k \in 5..11 : it.rec.f[k] = ParseI32(toks[k]).val
    /\ it.rec.f[12] = Strand_from_str(toks[12]).val
    /\ \A k \in 13..15 : it.rec.f[k] = ParseF32(toks[k]).val
    /\ SingleSpacedWords(it.rec.description)
    /\ SplitWhitespace(it.rec.description) = SubSeq(toks, 16, Len(toks))

\* C3: under the sequence schema a line of at least 15 tokens that all
\* coerce decodes to the record whose fields are the tokens positionally
\* and whose description is tokens 15.. joined by a single space, however
\* many widths the dash line gave.
C3_PositionalDecode ==
    \A n \in 1..Len(items) :
        (/\ iter.variant = "Dna"
         /\ items[n].tag # "None"
         /\ DnaLineWellFormed(SplitWhitespace(file[items[n].src])))
            => DnaDecodedAs(items[n], SplitWhitespace(file[items[n].src]))

\* Under a two-column dash line a row with a two-word description and a row
\* without description have been decoded.
C3_Witness ==
    /\ iter.variant = "Dna"
    /\ Len(items) >= 2
    /\ items[1].tag = "Ok" /\ items[2].tag = "Ok"
    /\ Len(items[1].rec.col_sizes) = 2
    /\ items[1].rec.f[12] = "Positive"
    /\ items[1].rec.description = Chars("desc one")
    /\ items[2].rec.f[12] = "Negative"
    /\ items[2].rec.description = <<>>

---------------------------------------------------------------------------
(* Failures of construction and of the record sequence *)

\* The positions of the lines that are not comments.
DataLines(f) ==
    {i \in 1..Len(f) : ~IsComment(f[i])}

\* Line i is a comment line, the fourth or later, with the Program key.
ProgramLineAt(f, i) ==
    /\ IsComment(f[i])
    /\ Cardinality({j \in 1..i : IsComment(f[j])}) >= MetaFirstHash
    /\ MetaKey(Split(f[i], <<":", " ">>)) = Chars("# Program")

UnknownProgramGiven(f) ==
    \E i \in 1..Len(f) :
        /\ ProgramLineAt(f, i)
        /\ ~Program_from_str(MetaRest(Split(f[i], <<":", " ">>))).ok

\* C4: when the Program key carries a value that is not one of the eight
\* names, construction of the Reader ends with an error result: there is no
\* Reader, and the process is not aborted.
C4_ErrorResult ==
    UnknownProgramGiven(file) => pc \in {"start", "construction failed"}

\* C7: when no Program key was read, requesting the record sequence fails
\* with an error result before any line is read; the process is not
\* aborted and nothing is yielded.
C7_TypedError ==
    (meta.program = "None" /\ pc \notin {"start", "panicked in read_meta"})
        => (pc \in {"ready", "records failed"} /\ items = <<>> /\ rpos = 0)

\* C8: every non-comment line read gives exactly one item, a record or an
\* error; a line with too few tokens gives an error item and never aborts.
C8_ShortLineIsError ==
    iter.kind # "none" =>
        /\ pc = "iterating"
        /\ Cardinality({i \in DataLines(file) : i <= rpos})
              = Cardinality({n \in 1..Len(items) : items[n].tag # "None"})

---------------------------------------------------------------------------
(* Errors and order in the record sequence *)

\* The line has the schema's fixed tokens, a token of an integer column
\* that is no integer, and no other token that fails.
BadIntLine(variant, toks) ==
    /\ Len(toks) >= Len(FieldsOf(variant))
    /\ \E k \in 1..Len(FieldsOf(variant)) :
          FieldsOf(variant)[k] = "i32" /\ ~ParseI32(toks[k]).ok
    /\ \A k \in 1..Len(FieldsOf(variant)) :
          ~ParseField(FieldsOf(variant)[k], toks[k]).ok
              => FieldsOf(variant)[k] = "i32"

BadIntItem(k) ==
    /\ items[k].tag # "None"
    /\ BadIntLine(iter.variant, SplitWhitespace(file[items[k].src]))

\* The input without line i.
Without(f, i) ==
    SubSeq(f, 1, i - 1) \o SubSeq(f, i + 1, Len(f))

\* The n-th pull (n >= 1) from input f, started at position pos.
RECURSIVE PullAt(_, _, _)
PullAt(f, pos, n) ==
    IF n = 1 THEN ReadFor(iter.variant, f, pos, header)
    ELSE PullAt(f, ReadFor(iter.variant, f, pos, header).pos, n - 1)

SameOutcome(a, b) ==
    a.tag = b.tag /\ a.err = b.err /\ a.rec = b.rec

\* C5: the pull for a line with a malformed integer gives an error item and
\* does not end the iteration, and every later pull gives what it would
\* have given had the bad line not been in the input.
LaterPullsUnaffected ==
    \A k \in 1..Len(items) :
        BadIntItem(k) =>
            /\ items[k].tag = "Err"
            /\ items[k].err = "ParseInt"
            /\ \A m \in (k + 1)..Len(items) :
                  SameOutcome(items[m], PullAt(Without(file, items[k].src), 0, m - 1))

\* The pull that gives an error item leaves the iteration going, the stream
\* standing right after the line that failed.
ErrorLeavesIterationOpen ==
    (Iterator_next /\ Len(items') > Len(items) /\ items'[Len(items')].tag = "Err")
        => (pc' = "iterating" /\ rpos' = items'[Len(items')].src)

C5_ErrorThenContinue ==
    /\ []LaterPullsUnaffected
    /\ [][ErrorLeavesIterationOpen]_vars

\* An error item for a malformed integer is followed by the record of the
\* next line and by the end of the sequence.
C5_Witness ==
    \E k \in 1..Len(items) :
        /\ BadIntItem(k)
        /\ Len(items) >= k + 2
        /\ items[k + 1].tag = "Ok"
        /\ items[k + 1].src = items[k].src + 1
        /\ items[k + 2].tag = "None"

\* Every line that is not a comment has the schema's fixed tokens.
LinesLongEnough(f, variant) ==
    \A i \in DataLines(f) :
        Len(SplitWhitespace(f[i])) >= Len(FieldsOf(variant))

\* The item is what decoding line i alone gives.
DecodedFrom(it, i) ==
    /\ it.src = i
    /\ SameOutcome(it, DecodeLine(iter.variant, file[i],
                                  calculate_dashes(header.dashes)))

\* C6: when every non-comment line has the fixed tokens, the pulls give one
\* item per non-comment line, the i-th from the i-th such line counted from
\* the first line of the input; comment lines give nothing, and the end is
\* reported only after the last non-comment line.
C6_OnePerDataLine ==
    (iter.kind # "none" /\ LinesLongEnough(file, iter.variant)) =>
        /\ pc = "iterating"
        /\ \A n \in 1..Len(items) :
              IF n <= Cardinality(DataLines(file))
              THEN DecodedFrom(items[n], Ascending(DataLines(file))[n])
              ELSE items[n].tag = "None"

\* Two rows with a comment line between them, comment lines before and
\* after: two items and then the end.
C6_Witness ==
    /\ pc = "iterating"
    /\ LinesLongEnough(file, iter.variant)
    /\ Len(items) = 3
    /\ items[1].src > 1
    /\ items[2].src = items[1].src + 2
    /\ items[2].src < Len(file)
    /\ items[3].tag = "None"

---------------------------------------------------------------------------
(* The schema of a stream *)

\* The table of the specification.
SchemaOf(program) ==
    CASE program = "Nhmmer" -> "Dna"
      [] program = "Nhmmscan" -> "Dna"
      [] program = "Jackhmmer" -> "Protein"
      [] program = "Hmmscan" -> "Protein"
      [] program = "Hmmsearch" -> "Protein"
      [] program = "Phmmer" -> "Protein"
      [] program = "Cmsearch" -> "CM"
      [] program = "Cmscan" -> "CM"
      [] OTHER -> "None"

\* C9: the schema is decided by the program alone, the same for the
\* borrowed and the owned sequence, and every record of a stream has it.
C9_SchemaByProgram ==
    iter.kind # "none" =>
        /\ iter.variant = SchemaOf(meta.program)
        /\ \A n \in 1..Len(items) :
              items[n].tag = "Ok" => items[n].rec.variant = SchemaOf(meta.program)

\* The owned sequence of an hmmsearch table has yielded a profile record.
C9_Witness ==
    /\ iter.kind = "owned"
    /\ meta.program = "Hmmsearch"
    /\ Len(items) >= 1
    /\ items[1].tag = "Ok"
    /\ items[1].rec.variant = "Protein"

---------------------------------------------------------------------------
(* Writing a record twice *)

OnlyRecordWrites ==
    /\ pc = "writer"
    /\ Len(wlog) >= 1
    /\ \A k \in 1..Len(wlog) : wlog[k].op = "write_record"

\* Every write has given one line, and the lines are the same.
SameLines ==
    /\ Len(Lines(out)) = Len(wlog)
    /\ \A k \in 1..Len(wlog) :
          /\ Lines(out)[k] = Lines(out)[1]
          /\ Lines(out)[k][Len(Lines(out)[k])] = "\n"

---------------------------------------------------------------------------
(* The codecs *)

\* The call made last.
LastOp ==
    IF wlog = <<>> THEN "none" ELSE wlog[Len(wlog)].op

\* C11: the Strand parser accepts "+" and "-" and nothing else, a text it
\* rejects gives an error and no strand, "+" and "-" are what the two
\* strands render as, and parsing then rendering, or rendering then
\* parsing, gives back what one started from.
StrandParsedRight ==
    LastOp = "Strand::from_str" =>
        /\ decoded.tag = "Ok" <=> out \in {<<"+">>, <<"-">>}
        /\ out = <<"+">> => decoded.val = "Positive"
        /\ out = <<"-">> => decoded.val = "Negative"
        /\ decoded.tag = "Err" => decoded.val \notin {"Positive", "Negative"}

StrandRenderedRight ==
    LastOp = "Strand::fmt" =>
        out = (IF decoded.val = "Positive" THEN <<"+">> ELSE <<"-">>)

StrandRoundTrips ==
    /\ (Strand_fmt /\ LastOp = "Strand::from_str") => out' = out
    /\ (Strand_parse /\ LastOp = "Strand::fmt") => decoded' = decoded

C11_StrandCodec ==
    /\ [](StrandParsedRight /\ StrandRenderedRight)
    /\ [][StrandRoundTrips]_vars

\* The negative strand has been rendered and parsed back.
C11_Witness ==
    /\ pc = "codec"
    /\ Len(wlog) = 2
    /\ wlog[1].op = "Strand::fmt"
    /\ wlog[2].op = "Strand::from_str"
    /\ out = <<"-">>
    /\ decoded = [tag |-> "Ok", of |-> "Strand", val |-> "Negative"]

\* The names of the specification and the programs they stand for.
ProgramTable ==
    {<<"nhmmer", "Nhmmer">>, <<"nhmmscan", "Nhmmscan">>,
     <<"jackhmmer", "Jackhmmer">>, <<"hmmscan", "Hmmscan">>,
     <<"hmmsearch", "Hmmsearch">>, <<"phmmer", "Phmmer">>,
     <<"cmsearch", "Cmsearch">>, <<"cmscan", "Cmscan">>}

\* C12: the Program parser accepts the eight lowercase names, each giving
\* its own program, and rejects every other text with an error; it never
\* gives the unknown program; a program renders as its name, and
\* rendering then parsing gives the program back.
ProgramParsedRight ==
    LastOp = "Program::from_str" =>
        /\ decoded.tag = "Ok" <=> \E e \in ProgramTable : out = Chars(e[1])
        /\ \A e \in ProgramTable : out = Chars(e[1]) => decoded.val = e[2]
        /\ decoded.tag = "Ok" => decoded.val # "None"

ProgramRenderedRight ==
    (LastOp = "Program::fmt" /\ wlog[Len(wlog)].result = "Ok") =>
        \E e \in ProgramTable : decoded.val = e[2] /\ out = Chars(e[1])

ProgramRoundTrips ==
    /\ (Program_fmt /\ LastOp = "Program::from_str") => out' = out
    /\ (Program_parse /\ LastOp = "Program::fmt" /\ wlog[Len(wlog)].result = "Ok")
          => decoded' = decoded

C12_ProgramCodec ==
    /\ [](ProgramParsedRight /\ ProgramRenderedRight)
    /\ [][ProgramRoundTrips]_vars

\* hmmsearch has been rendered and parsed back.
C12_Witness ==
    /\ pc = "codec"
    /\ Len(wlog) = 2
    /\ wlog[1].op = "Program::fmt"
    /\ wlog[2].op = "Program::from_str"
    /\ out = Chars("hmmsearch")
    /\ decoded = [tag |-> "Ok", of |-> "Program", val |-> "Hmmsearch"]

---------------------------------------------------------------------------
(* The Writer's output as lines *)

AllWritesOk ==
    /\ pc = "writer"
    /\ wlog # <<>>
    /\ \A k \in 1..Len(wlog) : wlog[k].result = "Ok"

\* C13: every Writer operation leaves the output at the start of a line;
\* the Meta block, when it is written first, ends with the line "# [ok]".
C13_WholeLines ==
    AllWritesOk =>
        /\ out # <<>>
        /\ out[Len(out)] = "\n"
        /\ wlog[1].op = "write_meta" =>
              (Len(Lines(out)) >= 10 /\ Lines(out)[10] = Chars("# [ok]\n"))

\* C14: write_record gives one line for every record, whatever the length
\* of its width list; it never aborts.
C14_OneLinePerRecord ==
    /\ pc # "panicked in write_record"
    /\ OnlyRecordWrites => Len(Lines(out)) = Len(wlog)

---------------------------------------------------------------------------
(* Column widths: padding and positivity *)

\* The pieces between single spaces are fill runs or, where spaces follow
\* one another, empty; the line neither begins nor ends with a space.
PaddedFillRuns(runs) ==
    /\ Len(runs[1]) > 0
    /\ Len(runs[Len(runs)]) > 0
    /\ \A k \in 1..Len(runs) :
          \A j \in 1..Len(runs[k]) : runs[k][j] \in {"-", "#"}

\* The spaces beyond the first that stand right before piece k.
ExtraSpacesBefore(runs, k) ==
    Cardinality({j \in 1..(k - 1) : \A i \in j..(k - 1) : Len(runs[i]) = 0})

\* One width per fill run: its fill characters and the spaces beyond the
\* first that precede it.
PaddedWidthsAt(runs, at) ==
    [n \in 1..Len(at) |-> Len(runs[at[n]]) + ExtraSpacesBefore(runs, at[n])]

PaddedWidths(runs) ==
    PaddedWidthsAt(runs, Ascending({k \in 1..Len(runs) : Len(runs[k]) > 0}))

\* C15: when fill runs are separated by s >= 1 spaces, there is one width
\* per run, the width after a gap of s spaces being the run's fill count
\* plus s - 1 and the width before it the fill count of its run only.
C15_PaddingGoesToNextColumn ==
    (pc = "calculated" /\ PaddedFillRuns(Split(header.dashes, <<" ">>)))
        => lengths = PaddedWidths(Split(header.dashes, <<" ">>))

\* A run of one, two spaces, a run of two: widths 1 and 3.
C15_Witness ==
    /\ pc = "calculated"
    /\ header.dashes = <<"-", " ", " ", "-", "-">>
    /\ lengths = <<1, 3>>

\* C16: every width calculate_dashes returns is at least 1, whatever the
\* characters of the dash line, and the empty line gives no width.
C16_WidthsPositive ==
    pc = "calculated" =>
        /\ \A k \in 1..Len(lengths) : lengths[k] >= 1
        /\ header.dashes = <<>> => lengths = <<>>

\* A line of runs, repeated spaces, another character and a line end has
\* been calculated.
C16_Witness ==
    /\ pc = "calculated"
    /\ header.dashes = Chars("#-- --   --- -\r\n")
    /\ lengths = <<3, 2, 5, 1>>

---------------------------------------------------------------------------
(* The header pass *)

\* The characters after the leading '#' that are not whitespace are at
\* least one and all the same.
DashShaped(line) ==
    /\ \E i \in 2..Len(line) : ~IsWhitespace(line[i])
    /\ \A i, j \in 2..Len(line) :
          (~IsWhitespace(line[i]) /\ ~IsWhitespace(line[j])) => line[i] = line[j]

IsBannerLine(line) ==
    IsComment(line) /\ Contains(line, Chars("full sequence"))

IsLabelLine(line) ==
    IsComment(line) /\ Contains(line, Chars("target name"))

\* A comment line of none of the three heading shapes.
Unclassified(line) ==
    /\ IsComment(line)
    /\ ~Contains(line, Chars("full sequence"))
    /\ ~Contains(line, Chars("target name"))
    /\ ~DashShaped(line)

\* The first line that is not a comment, or one past the last line.
FirstDataLine(f) ==
    IF DataLines(f) = {} THEN Len(f) + 1
    ELSE CHOOSE i \in DataLines(f) : \A j \in DataLines(f) : i <= j

\* The Header holds nothing but defaults and lines among the given ones.
HeaderTakenFrom(f, S) ==
    /\ header.protein_only = Option_None
          \/ \E i \in S : header.protein_only = [tag |-> "Some", val |-> f[i]]
    /\ header.columns = <<>> \/ \E i \in S : header.columns = f[i]
    /\ header.dashes = <<>> \/ \E i \in S : header.dashes = f[i]

\* C17: read_header stops at the first line that is not a comment: what it
\* returns holds no line from after that one.
C17_StopsAtFirstDataLine ==
    pc = "scanned" =>
        HeaderTakenFrom(file, 1..(FirstDataLine(file) - 1))

\* The comment lines of no heading shape before line i.
MissesBefore(f, i) ==
    Cardinality({j \in 1..(i - 1) : Unclassified(f[j])})

\* C18: the misses add up over the scan, and a heading line that comes
\* after more than three of them is not stored.
C18_StopsAfterThreeMisses ==
    pc = "scanned" =>
        HeaderTakenFrom(file, {i \in 1..Len(file) : MissesBefore(file, i) <= HeaderTolerance})

\* The comment lines without "full sequence" and "target name" that have
\* the dash shape.
DashLinesOf(f) ==
    {i \in 1..Len(f) :
        /\ IsComment(f[i])
        /\ ~Contains(f[i], Chars("full sequence"))
        /\ ~Contains(f[i], Chars("target name"))
        /\ DashShaped(f[i])}

---------------------------------------------------------------------------
(* C20 *)

\* The positions of the comment lines of f, and those among them that are
\* one of the first three comment lines.
CommentLinesOf(f) ==
    {i \in 1..Len(f) : IsComment(f[i])}

SkippedLinesOf(f) ==
    {i \in CommentLinesOf(f) :
        Cardinality({j \in CommentLinesOf(f) : j <= i}) < MetaFirstHash}

\* f with its first three comment lines replaced by bare "#" lines, and f
\* with its non-comment lines taken out.
Blanked(f) ==
    [i \in 1..Len(f) |-> IF i \in SkippedLinesOf(f) THEN Chars("#\n") ELSE f[i]]

CommentsOnly(f) ==
    SelectSeq(f, IsComment)

\* The outcome of the scan that was run is the outcome read_meta has on g.
ScannedAs(g) ==
    /\ pc = "panicked in read_meta" <=> read_meta(g).tag = "Panic"
    /\ meta = read_meta(g).meta

\* C20: read_meta does not look at the first three comment lines, and only
\* comment lines are counted.  With at most three comment lines the scan
\* ends normally with the default Meta whatever the lines say; in general
\* the outcome is the one for the input whose first three comment lines
\* are bare "#" lines, and the one for the input without its non-comment
\* lines.
C20_FirstThreeSkipped ==
    pc # "meta" =>
        /\ CommentLinesOf(file) = SkippedLinesOf(file) =>
                pc = "meta scanned" /\ meta = Meta_default
        /\ ScannedAs(Blanked(file))
        /\ ScannedAs(CommentsOnly(file))

\* An unsupported Program line and a Version line among the first three
\* comment lines, a data row between them: the scan ended normally and
\* only the Program line that is the fourth comment line was used.
C20_Witness ==
    /\ pc = "meta scanned"
    /\ file = <<ProgramLine(Chars("unknown_tool")), DnaRow1, VersionLine,
                Chars("#\n"), ProgramLine(Chars("nhmmer"))>>
    /\ meta = [Meta_default EXCEPT !.program = "Nhmmer"]

---------------------------------------------------------------------------
(* C21, C22 *)

\* Where the first ": " of a line is (0 without one), the trimmed text
\* before it and the trimmed text after it.
FirstDelimiter(line) ==
    NextMatch(line, <<":", " ">>, 1)

KeyOf(line) ==
    IF FirstDelimiter(line) = 0 THEN Trim(line)
    ELSE Trim(SubSeq(line, 1, FirstDelimiter(line) - 1))

ValueOf(line) ==
    IF FirstDelimiter(line) = 0 THEN <<>>
    ELSE Trim(SubSeq(line, FirstDelimiter(line) + 2, Len(line)))

\* The seven keys whose value is stored as text, and the Meta field of each.
TextKeys ==
    {<<Chars("# Version"), "version">>, <<Chars("# Pipeline mode"), "pipeline_mode">>,
     <<Chars("# Query file"), "query_file">>, <<Chars("# Target file"), "target_file">>,
     <<Chars("# Option settings"), "options">>, <<Chars("# Current dir"), "current_dir">>,
     <<Chars("# Date"), "date">>}

\* The comment lines from the fourth on that carry the key.
InspectedWith(f, key) ==
    {i \in CommentLinesOf(f) \ SkippedLinesOf(f) : KeyOf(f[i]) = key}

LastOf(S) ==
    CHOOSE i \in S : \A j \in S : j <= i

\* C21: the value stored for a recognized key is the trimmed text after the
\* first ": " of the last line with that key, any later ": " kept as it is.
C21_SplitAtFirstDelimiter ==
    pc = "meta scanned" =>
        \A k \in TextKeys :
            InspectedWith(file, k[1]) # {} =>
                meta[k[2]] = ValueOf(file[LastOf(InspectedWith(file, k[1]))])

\* C22: the scan reads every line.  Unless an unsupported Program name ended
\* the program, the line count is the length of the input and the last
\* line carrying a key from the fourth comment line on decides the field,
\* however many data rows precede it (for values with one ": "); in every
\* case the outcome and the comment-line count are those of the input
\* without its non-comment lines.
C22_ScansToEnd ==
    pc # "meta" =>
        /\ pc = "meta scanned" =>
              /\ line_no = Len(file)
              /\ \A k \in TextKeys :
                    /\ InspectedWith(file, k[1]) # {}
                    /\ Len(Split(file[LastOf(InspectedWith(file, k[1]))], <<":", " ">>)) = 2
                    => meta[k[2]] = ValueOf(file[LastOf(InspectedWith(file, k[1]))])
              /\ InspectedWith(file, Chars("# Program")) # {} =>
                    meta.program =
                        Program_from_str(ValueOf(file[LastOf(
                            InspectedWith(file, Chars("# Program")))])).val
        /\ read_meta(file).tag = read_meta(CommentsOnly(file)).tag
        /\ read_meta(file).meta = read_meta(CommentsOnly(file)).meta
        /\ read_meta(file).hash_counter = read_meta(CommentsOnly(file)).hash_counter

\* A Target file line after three bare comment lines and a run of data rows
\* has been stored.
C22_Witness ==
    /\ pc = "meta scanned"
    /\ file = <<Chars("#\n"), Chars("#\n"), Chars("#\n")>> \o Repeat(DnaRow1, MaxMetaLines)
              \o <<Chars("# Target file:     db.fa\n")>>
    /\ meta = [Meta_default EXCEPT !.target_file = Chars("db.fa")]
    /\ line_no = Len(file)

---------------------------------------------------------------------------
(* C23, C24, C25: how the columns of a record line are laid out *)

WideWidth ==
    CHOOSE w \in SampleWidths : \A v \in SampleWidths : v <= w

\* A record whose widths are all WideWidth has been written first.  Every
\* rendered value of the records written is shorter than WideWidth, so
\* column k of the line is the k-th stretch of WideWidth characters, the
\* stretches one space apart.
WideRecordWritten ==
    /\ pc = "writer"
    /\ wlog # <<>>
    /\ wlog[1].op = "write_record"
    /\ rec.col_sizes = Repeat(WideWidth, Len(FormatOf(rec.variant)))

ColumnAt(line, k) ==
    SubSeq(line, (k - 1) * (WideWidth + 1) + 1, (k - 1) * (WideWidth + 1) + WideWidth)

\* The column (1-based) of the strand, and the columns of the E-values.
StrandColumn(variant) ==
    IF variant = "Dna" THEN 12 ELSE 10

EValueColumns(variant) ==
    CASE variant = "Dna" -> {13}
      [] variant = "Protein" -> {5, 8}
      [] OTHER -> {16}

\* One glyph in the middle of a column: half of the padding, rounded down,
\* before it and the remainder after it.
Centered(glyph) ==
    Repeat(" ", (WideWidth - 1) \div 2) \o glyph
    \o Repeat(" ", (WideWidth - 1) - (WideWidth - 1) \div 2)

\* C23: in the sequence and the model schema the strand column is the one
\* glyph of the strand, centred in the column's width.
C23_StrandCentered ==
    WideRecordWritten /\ rec.variant \in {"Dna", "CM"} =>
        ColumnAt(Lines(out)[1], StrandColumn(rec.variant))
            = Centered(IF rec.f[StrandColumn(rec.variant)] = "Positive"
                       THEN <<"+">> ELSE <<"-">>)

\* C24: in every schema the description is the last column and begins
\* right after the separator that follows the column before it; the
\* padding comes after it.
C24_DescriptionLeftJustified ==
    WideRecordWritten =>
        ColumnAt(Lines(out)[1], Len(FormatOf(rec.variant)))
            = rec.description \o Repeat(" ", WideWidth - Len(rec.description))

\* C25: in every schema each E-value column holds a number in lower-case
\* scientific notation: digits, an optional fraction, then "e" and the
\* exponent.
C25_EValueScientific ==
    WideRecordWritten =>
        \A k \in EValueColumns(rec.variant) :
            /\ Contains(Trim(ColumnAt(Lines(out)[1], k)), <<"e">>)
            /\ ~Contains(Trim(ColumnAt(Lines(out)[1], k)), <<"E">>)

---------------------------------------------------------------------------
(* C26: the widths carried by the records of one Reader *)

\* Every record yielded so far carries the widths of the Header's dash line.
WidthsFromHeader ==
    \A k \in 1..Len(items) :
        items[k].tag = "Ok" =>
            items[k].rec.col_sizes = calculate_dashes(header.dashes)

\* A pull leaves the Header, the Meta and the items already yielded as
\* they were.
PullKeepsWhatWasYielded ==
    Iterator_next =>
        /\ header' = header
        /\ meta' = meta
        /\ \A k \in 1..Len(items) : items'[k] = items[k]

\* C26: every record of one Reader carries the same widths, those
\* calculate_dashes gives for the Header's dash line, whatever was pulled
\* before it; later pulls change neither the Header, nor the Meta, nor a
\* record already yielded.
C26_SharedWidths ==
    /\ []WidthsFromHeader
    /\ [][PullKeepsWhatWasYielded]_vars

\* Under the sixteen-column dash line a record, an error and another
\* record were pulled: both records carry the sixteen widths.
C26_Witness ==
    /\ pc = "iterating"
    /\ header.dashes = Dash16
    /\ Len(items) >= 3
    /\ items[1].tag = "Ok"
    /\ items[2].tag = "Err"
    /\ items[3].tag = "Ok"
    /\ items[1].rec.col_sizes = <<3, 2, 2, 2, 2, 2, 2, 2, 2, 2, 2, 2, 6, 4, 3, 4>>
    /\ items[3].rec.col_sizes = items[1].rec.col_sizes

---------------------------------------------------------------------------
(* C27: the widths account for every character of the dash line *)

RECURSIVE SumOf(_)
SumOf(ws) ==
    IF Len(ws) = 0 THEN 0 ELSE ws[1] + SumOf(Tail(ws))

\* Only fill characters and spaces, a fill character first, no space last.
FillAndSpaces(d) ==
    /\ Len(d) > 0
    /\ \A i \in 1..Len(d) : d[i] \in {"-", "#", " "}
    /\ d[1] # " "
    /\ d[Len(d)] # " "

\* C27: for a dash line of fill characters and spaces that begins with a
\* fill character and does not end with a space, the k widths and one
\* separator per column boundary add up to the length of the line.
C27_WidthsCoverLine ==
    (pc = "calculated" /\ FillAndSpaces(header.dashes))
        => SumOf(lengths) + (Len(lengths) - 1) = Len(header.dashes)

\* Two columns three spaces apart: widths 1 and 3, one separator, five
\* characters.
C27_Witness ==
    /\ pc = "calculated"
    /\ header.dashes = <<"-", " ", " ", " ", "#">>
    /\ lengths = <<1, 3>>

---------------------------------------------------------------------------
(* C28: the pulls come to the end of the sequence *)

EndReturned ==
    Len(items) > 0 /\ items[Len(items)].tag = "None"

\* A pull reads at least one line unless no line is left.
PullConsumesALine ==
    Iterator_next => (rpos' > rpos \/ rpos = Len(file))

\* Once the end was returned, every later item is the end again.
EndIsFinal ==
    \A k \in 1..Len(items) :
        items[k].tag = "None" => \A m \in k..Len(items) : items[m].tag = "None"

\* C28: with the caller pulling on, every record sequence over a finite
\* input comes to return the end of the sequence; each pull, also one that
\* returns an error, reads at least one line unless the input is
\* exhausted; after the end every pull returns the end.
C28_PullsReachEnd ==
    /\ (pc = "iterating") ~> EndReturned
    /\ [][PullConsumesALine]_vars
    /\ []EndIsFinal

---------------------------------------------------------------------------
(* C29: the Meta read back from the Writer's output *)

\* write_meta, write_header and write_record were called in this order,
\* each returned Ok, and the output was opened with the Reader.
WrittenInOrderAndReopened ==
    /\ pc = "ready"
    /\ decoded.tag = "Reader"
    /\ Len(wlog) = 3
    /\ wlog[1].op = "write_meta"
    /\ wlog[2].op = "write_header"
    /\ wlog[3].op = "write_record"
    /\ \A k \in 1..3 : wlog[k].result = "Ok"

MetaFieldNames ==
    {"program", "version", "pipeline_mode", "query_file", "target_file",
     "options", "current_dir", "date"}

\* The text fields of the Meta are trimmed and hold no ": ".
MetaValuesPlain(m) ==
    \A n \in MetaFieldNames \ {"program"} :
        m[n] = Trim(m[n]) /\ ~Contains(m[n], <<":", " ">>)

\* C29: after write_meta, write_header and write_record, the Reader opened
\* on the output has a Meta equal to the written one in all eight fields,
\* for values that are trimmed and hold no ": ".
C29_MetaReadBack ==
    (WrittenInOrderAndReopened /\ MetaValuesPlain(meta)) =>
        \A n \in MetaFieldNames : decoded.meta[n] = meta[n]

---------------------------------------------------------------------------
(* C30: write_meta on a Meta without a program *)

\* What the step appended to the output.
Appended ==
    SubSeq(out', Len(out) + 1, Len(out'))

\* write_meta on a Meta whose program is Program::None returns an error
\* and puts no "# Program:" line into the output.
NoneProgramRefused ==
    (Writer_write_meta /\ meta.program = "None") =>
        /\ pc' = pc
        /\ Len(wlog') = Len(wlog) + 1
        /\ wlog'[Len(wlog')].result = "Err"
        /\ ~Contains(Appended, Chars("# Program:"))

\* C30: write_meta on a Meta with the unknown program returns an error to
\* the caller and never writes a "# Program:" line with an empty or
\* placeholder name.
C30_NoneProgramIsError ==
    [][NoneProgramRefused]_vars

====
